---------------------------- MODULE Spec2Model ----------------------------
(***************************************************************************)
(* A model of the vanity-address mining engine of src/wallet_engine.js:    *)
(* the worker thread's mining loop, the VanityForge controller (start,     *)
(* stop, message routing, persistence) and the callers of main.js that     *)
(* drive it over IPC.                                                      *)
(*                                                                         *)
(* Strings are sequences of one-character strings.                         *)
(***************************************************************************)
EXTENDS Integers, Sequences, FiniteSets, TLC

(***************************************************************************)
(* Bounds of the model.                                                    *)
(***************************************************************************)
\* longest candidate address generated in the matcher specification
MaxAddrLen == 3
\* attempts of the single worker of the matcher specification
MaxMineAttempts == 2
\* length of the sequence of the fixed-sequence specification
MaxFeed == 3
\* longest pattern string of the validation specification
MaxPatternLen == 3
MaxYields == 3
MaxPassMs == 2
MaxCrashes == 2
\* calls of start() and of stop() the callers make
MaxStarts == 2
MaxStops == 2
\* key pairs that match (every Keypair.generate() returns a fresh key)
MaxKeys == 2
\* attempts of one worker of the controller specification
MaxAttempts == 50000
\* faults raised inside mining loops
MaxFaults == 1
\* file-system calls of saveWallet that fail
MaxIoFaults == 1
\* the last millisecond the clock reaches
MaxClock == 2
\* the CPUs of the largest machine of the worker-count specification
MaxCpus == 4
\* progress reports of the worker of the speed-history specification
MaxReports == 62

(***************************************************************************)
(* Strings and the JavaScript string operations the engine uses.           *)
(***************************************************************************)
Lower == <<"a","b","c","d","e","f","g","h","i","j","k","l","m",
           "n","o","p","q","r","s","t","u","v","w","x","y","z">>
Upper == <<"A","B","C","D","E","F","G","H","I","J","K","L","M",
           "N","O","P","Q","R","S","T","U","V","W","X","Y","Z">>

\* const BASE58_ALPHABET / VALID_SUFFIX_CHARS
BASE58_ALPHABET ==
    {"1","2","3","4","5","6","7","8","9",
     "A","B","C","D","E","F","G","H","J","K","L","M","N","P","Q","R","S","T",
     "U","V","W","X","Y","Z",
     "a","b","c","d","e","f","g","h","i","j","k","m","n","o","p","q","r","s",
     "t","u","v","w","x","y","z"}

\* String.prototype.toUpperCase, one character
ToUpperChar(c) ==
    IF \E i \in 1..26 : Lower[i] = c
    THEN Upper[CHOOSE i \in 1..26 : Lower[i] = c]
    ELSE c

\* String.prototype.toUpperCase
ToUpperCase(s) == [i \in 1..Len(s) |-> ToUpperChar(s[i])]

\* String.prototype.startsWith
JsStartsWith(s, p) == Len(p) <= Len(s) /\ SubSeq(s, 1, Len(p)) = p

\* String.prototype.endsWith
JsEndsWith(s, p) ==
    Len(p) <= Len(s) /\ SubSeq(s, Len(s) - Len(p) + 1, Len(s)) = p

\* the white space String.prototype.trim removes
IsSpace(c) == c = " "

RECURSIVE TrimLeft(_)
TrimLeft(s) ==
    IF s # <<>> /\ IsSpace(Head(s)) THEN TrimLeft(Tail(s)) ELSE s

RECURSIVE TrimRight(_)
TrimRight(s) ==
    IF s # <<>> /\ IsSpace(s[Len(s)])
    THEN TrimRight(SubSeq(s, 1, Len(s) - 1))
    ELSE s

\* String.prototype.trim
Trim(s) == TrimRight(TrimLeft(s))

\* String.prototype.split(','): the pieces between the commas
RECURSIVE SplitComma(_, _)
SplitComma(s, cur) ==
    IF s = <<>> THEN <<cur>>
    ELSE IF Head(s) = "," THEN <<cur>> \o SplitComma(Tail(s), <<>>)
    ELSE SplitComma(Tail(s), Append(cur, Head(s)))

\* Array.prototype.filter
RECURSIVE FilterNonEmpty(_)
FilterNonEmpty(ss) ==
    IF ss = <<>> THEN <<>>
    ELSE IF Len(Head(ss)) > 0 THEN <<Head(ss)>> \o FilterNonEmpty(Tail(ss))
    ELSE FilterNonEmpty(Tail(ss))

(***************************************************************************)
(* Validation of the patterns (validateSuffix, parseSuffixes).             *)
(***************************************************************************)
NoChar == "none"

\* a variant of validateSuffix that accepts every pattern
validateSuffixLax(suffix) == [valid |-> TRUE, invalidChar |-> NoChar]

\* a variant of validateSuffix that returns the last character outside the
\* alphabet
validateSuffixLast(suffix) ==
    LET bad == {i \in 1..Len(suffix) : suffix[i] \notin BASE58_ALPHABET}
    IN  IF bad = {} THEN [valid |-> TRUE, invalidChar |-> NoChar]
        ELSE [valid |-> FALSE,
              invalidChar |-> suffix[CHOOSE i \in bad : \A j \in bad : j <= i]]

\* validateSuffix: the first character outside the alphabet, if any
validateSuffix(suffix) ==
    LET bad == {i \in 1..Len(suffix) : suffix[i] \notin BASE58_ALPHABET}
    IN  IF bad = {} THEN [valid |-> TRUE, invalidChar |-> NoChar]
        ELSE [valid |-> FALSE,
              invalidChar |-> suffix[CHOOSE i \in bad : \A j \in bad : i <= j]]

\* parseSuffixes: split at the commas, trim, drop the empty pieces, and
\* reject at the first invalid suffix
parseSuffixes(suffixString) ==
    IF suffixString = <<>> \/ Trim(suffixString) = <<>>
    THEN [valid |-> TRUE, suffixes |-> <<>>, invalidChar |-> NoChar,
          invalidSuffix |-> <<>>]
    ELSE LET pieces   == SplitComma(suffixString, <<>>)
             suffixes == FilterNonEmpty([i \in 1..Len(pieces) |-> Trim(pieces[i])])
             bad      == {i \in 1..Len(suffixes) : ~validateSuffix(suffixes[i]).valid}
         IN  IF bad = {}
             THEN [valid |-> TRUE, suffixes |-> suffixes, invalidChar |-> NoChar,
                   invalidSuffix |-> <<>>]
             ELSE LET k == CHOOSE i \in bad : \A j \in bad : i <= j
                  IN  [valid |-> FALSE, suffixes |-> <<>>,
                       invalidChar |-> validateSuffix(suffixes[k]).invalidChar,
                       invalidSuffix |-> suffixes[k]]

(***************************************************************************)
(* The worker's test of one candidate address (the body of the inner loop  *)
(* of mineLoop, with the targets precomputed at the top of the worker).    *)
(***************************************************************************)
\* a variant of targetPre that forgets to normalise the prefix
targetPreRaw(criteria) == criteria.prefix

\* const targetPre
targetPre(criteria) ==
    IF criteria.matchCase THEN criteria.prefix ELSE ToUpperCase(criteria.prefix)

\* const targetSuffixes
targetSuffixes(criteria) ==
    [j \in 1..Len(criteria.suffixes) |->
        IF criteria.matchCase THEN criteria.suffixes[j]
        ELSE ToUpperCase(criteria.suffixes[j])]

hasPrefix(criteria) == Len(targetPre(criteria)) > 0

hasSuffixes(criteria) == Len(targetSuffixes(criteria)) > 0

\* a variant of checkPk that forgets to normalise the candidate
checkPkRaw(criteria, pk) == pk

\* const checkPk
checkPk(criteria, pk) == IF criteria.matchCase THEN pk ELSE ToUpperCase(pk)

\* let prefixMatch, after the prefix test
prefixMatch(criteria, pk) ==
    IF hasPrefix(criteria) /\ JsStartsWith(checkPk(criteria, pk), targetPre(criteria))
    THEN TRUE
    ELSE ~hasPrefix(criteria)

\* a variant of the suffix loop that goes on after a match: the index of the
\* last target suffix the address ends with
suffixLoopLast(targets, cpk, j) ==
    LET hits == {k \in j..Len(targets) : JsEndsWith(cpk, targets[k])}
    IN  IF hits = {} THEN 0 ELSE CHOOSE k \in hits : \A h \in hits : h <= k

\* the suffix loop: the index of the first target suffix the address ends
\* with (the loop breaks there), 0 when the loop ends without one
RECURSIVE suffixLoop(_, _, _)
suffixLoop(targets, cpk, j) ==
    IF j > Len(targets) THEN 0
    ELSE IF JsEndsWith(cpk, targets[j]) THEN j
    ELSE suffixLoop(targets, cpk, j + 1)

\* one iteration's outcome: whether a 'found' message is posted, and the
\* matchedSuffix / matchedPrefix it carries
checkCandidate(criteria, pk) ==
    IF ~prefixMatch(criteria, pk)
    THEN [found |-> FALSE, matchedSuffix |-> <<>>, matchedPrefix |-> <<>>]
    ELSE LET j == IF hasSuffixes(criteria)
                  THEN suffixLoop(targetSuffixes(criteria), checkPk(criteria, pk), 1)
                  ELSE 0
             suffixMatch   == IF hasSuffixes(criteria) THEN j > 0 ELSE TRUE
             matchedSuffix == IF j > 0 THEN targetSuffixes(criteria)[j] ELSE <<>>
         IN  [found |-> prefixMatch(criteria, pk) /\ suffixMatch,
              matchedSuffix |-> matchedSuffix,
              matchedPrefix |-> IF hasPrefix(criteria) THEN targetPre(criteria)
                                ELSE <<>>]

VARIABLES
    mCriteria,   \* matcher specification: workerData.criteria of the worker
    mPk,         \* the candidate address of the last attempt
    mOut,        \* the 'found' messages the worker has posted and the
                 \* controller has not received, in order
    mAttempts,   \* localAttempts
    mFeed,       \* the candidates of a generator that produces a fixed
                 \* sequence (<<>>: any candidate, any time)
    mTime        \* the worker's clock: now, Date.now() in ms since the
                 \* worker started; startTime of the mineLoop call in
                 \* progress; batchSize; pc, in the loop or at the yield

mvars == <<mCriteria, mPk, mOut, mAttempts, mFeed, mTime>>

\* a worker at its start: mineLoop is called at once
TimeInit(batchSize) ==
    [now |-> 0, startTime |-> 0, batchSize |-> batchSize, pc |-> "loop"]

VARIABLES
    isRunning,       \* this.isRunning
    workersRef,      \* this.workers: the array object it refers to
    arrays,          \* the array objects: their elements (worker threads)
    foundWallets,    \* this.foundWallets
    telemetry,       \* this.telemetry
    currentCriteria, \* this.currentCriteria
    stopFrames,      \* the stop() calls in progress, each at its await
    startFrames,     \* the start() calls awaiting their this.stop()
    saveFrames,      \* the 'found' handlers in progress, each at its await
    micro,           \* the main thread's microtask queue
    wk,              \* the worker threads ever spawned
    out,             \* per worker, the messages posted and not yet received
    disk,            \* the files under this.dataPath
    clock,           \* the millisecond of the last new Date() (0: none yet)
    onFoundLog,      \* the calls of this.onFound, in order
    onErrorLog,      \* the calls of this.onError, in order
    startLog,        \* the start() calls that have returned, in order
    calls,           \* counters: calls made, keys generated, faults raised; row:
                     \* the stop() calls made since start() was last called or
                     \* last ran its body
    scn              \* the scenario: the machine's CPUs and the budget of events

cvars == <<isRunning, workersRef, arrays, foundWallets, telemetry, currentCriteria>>
fvars == <<stopFrames, startFrames, saveFrames, micro>>
wvars == <<wk, out>>
dvars == <<disk, clock>>
lvars == <<onFoundLog, onErrorLog, startLog>>

VARIABLES
    encryptionKey,   \* this.encryptionKey: a passphrase, <<>> for null
    load,            \* the loadWallets() call in progress
    loaded,          \* what the last loadWallets() call returned, and the
                     \* file at which it failed
    plain,           \* the record last handed to encrypt()
    sealed,          \* the string encrypt() returned for it, <<>> before
    opened           \* what decrypt() made of that string

svars == <<encryptionKey, load, loaded, plain, sealed, opened>>

vars == <<mvars, svars, cvars, fvars, wvars, dvars, lvars, calls, scn>>

(***************************************************************************)
(* The controller's environment and inputs.                                *)
(***************************************************************************)
Null == "null"

EmptyFn == [x \in {} |-> 0]

Max(a, b) == IF a >= b THEN a ELSE b
Min(a, b) == IF a <= b THEN a ELSE b

Range(s) == {s[i] : i \in 1..Len(s)}

\* const NUM_WORKERS = Math.max(1, os.cpus().length - 1)
NUM_WORKERS == Max(1, scn.cpus - 1)

\* const REPORT_INTERVAL
REPORT_INTERVAL == 5000

\* the attempt count at whose multiples mineLoop yields (setImmediate)
YIELD_INTERVAL == 50000

\* criteria.batchSize || 1000
DEFAULT_BATCH_SIZE == 1000

\* the criteria objects the callers pass to start(): a prefix search, a
\* multi-suffix search, a suffix with a character outside Base58, a prefix
\* with one, and no target at all
StartCriteria ==
    { [prefix |-> <<"A">>, suffixString |-> <<>>, matchCase |-> FALSE,
       workers |-> 2, batchSize |-> 50000],
      [prefix |-> <<>>, suffixString |-> <<"a", ",", " ", "2">>, matchCase |-> TRUE,
       workers |-> 1, batchSize |-> 25000],
      [prefix |-> <<"A">>, suffixString |-> <<"a", ",", "0">>, matchCase |-> FALSE,
       workers |-> 1, batchSize |-> 50000],
      [prefix |-> <<"l">>, suffixString |-> <<>>, matchCase |-> FALSE,
       workers |-> 1, batchSize |-> 50000],
      [prefix |-> <<>>, suffixString |-> <<" ", ",">>, matchCase |-> FALSE,
       workers |-> 1, batchSize |-> 50000] }

\* the criteria of the worker-count specification: a valid prefix search with
\* every requested worker count from a negative one to one above any limit
CountCriteria ==
    { [prefix |-> <<"A">>, suffixString |-> <<>>, matchCase |-> FALSE,
       workers |-> r, batchSize |-> 50000] : r \in (-1)..(MaxCpus + 1) }

\* the criteria of the speed-history specification: a valid prefix search
\* whose workers report after every pass
HistoryCriteria ==
    { [prefix |-> <<"A">>, suffixString |-> <<>>, matchCase |-> FALSE,
       workers |-> 2, batchSize |-> REPORT_INTERVAL] }

\* the criteria of the yield specification: a valid prefix search with batch
\* sizes that divide the yield interval, that do not, and that exceed it
YieldCriteria ==
    { [prefix |-> <<"A">>, suffixString |-> <<>>, matchCase |-> FALSE,
       workers |-> 1, batchSize |-> b] :
          b \in {1000, 10000, 25000, 30000, 50000, 75000} }

\* the pattern strings of the validation specification: two Base58
\* characters, two characters outside Base58, the comma and the space
PatternChars == {"a", "b", "0", "l", ",", " "}

PatternStrings == UNION {[1..n -> PatternChars] : n \in 0..MaxPatternLen}

\* the criteria of the validation specification: every pattern string as
\* the suffix string of a search with a valid prefix, and as the prefix of
\* a search without suffixes
ValidateCriteria ==
    { [prefix |-> <<"A">>, suffixString |-> str, matchCase |-> FALSE,
       workers |-> 1, batchSize |-> 50000] : str \in PatternStrings }
    \cup { [prefix |-> str, suffixString |-> <<>>, matchCase |-> FALSE,
           workers |-> 1, batchSize |-> 50000] : str \in PatternStrings \ {<<>>} }

\* Keypair.generate() in the controller specification: the k-th matching
\* key pair is a fresh secret key, k, and its address; the first two
\* addresses differ and agree on their first 8 characters
AddressOf(k) ==
    CASE k = 1 -> <<"A", "a", "1", "1", "1", "1", "1", "1", "a">>
      [] k = 2 -> <<"A", "a", "1", "1", "1", "1", "1", "1", "2">>
      [] OTHER -> <<"A", "a", "2", "1", "1", "1", "1", "1", "a">>

\* The scenarios explored: the number of CPUs of the machine
\* (os.cpus().length), how many start() and stop() calls, matching key
\* pairs, worker faults and failing file-system calls a behaviour may hold,
\* how many attempts a worker makes, and the speeds a worker measures at its
\* successive progress reports (a cycle).
\* Within a scenario every interleaving is explored.
Scenarios ==
    { \* several runs on a two-CPU machine, with a stop and a match
      [cpus |-> 2, starts |-> MaxStarts, stops |-> 1, keys |-> 1,
       faults |-> 0, ioFaults |-> 0,
       attempts |-> MaxAttempts, speeds |-> <<2, 3>>],
      \* one run on a three-CPU machine, stopped several times, with faults
      [cpus |-> 3, starts |-> 1, stops |-> MaxStops, keys |-> 0,
       faults |-> MaxFaults, ioFaults |-> 0,
       attempts |-> MaxAttempts, speeds |-> <<2, 3>>],
      \* one run on a three-CPU machine, with several matches and a failing
      \* file-system call
      [cpus |-> 3, starts |-> 1, stops |-> 0, keys |-> MaxKeys,
       faults |-> 0, ioFaults |-> MaxIoFaults,
       attempts |-> MaxAttempts, speeds |-> <<2, 3>>],
      \* start() called again and again on a two-CPU machine, stop() never
      [cpus |-> 2, starts |-> MaxStarts + 1, stops |-> 0, keys |-> 0,
       faults |-> 0, ioFaults |-> 0,
       attempts |-> MaxAttempts, speeds |-> <<2, 3>>] }

\* the array objects this.workers can refer to
ArrIds == 0..(MaxStarts + 1 + MaxStops)

(***************************************************************************)
(* The controller after construction (constructor).                        *)
(***************************************************************************)
CtlInit ==
    /\ isRunning = FALSE
    /\ workersRef = 0
    /\ arrays = [a \in ArrIds |-> <<>>]
    /\ foundWallets = <<>>
    /\ telemetry = [totalAttempts |-> 0, keysPerSecond |-> 0, activeWorkers |-> 0,
                    speedHistory |-> <<>>, workerStats |-> EmptyFn,
                    foundCount |-> 0]
    /\ currentCriteria = Null
    /\ stopFrames = {}
    /\ startFrames = {}
    /\ saveFrames = {}
    /\ micro = <<>>
    /\ wk = <<>>
    /\ out = <<>>
    /\ disk = EmptyFn
    /\ clock = 0
    /\ onFoundLog = <<>>
    /\ onErrorLog = <<>>
    /\ startLog = <<>>
    /\ calls = [starts |-> 0, stops |-> 0, stopCalls |-> 0, keys |-> 0,
                faults |-> 0, ioFaults |-> 0, run |-> 0, row |-> 0]
    /\ load = [pc |-> "idle", files |-> <<>>, idx |-> 0, wallets |-> <<>>]
    /\ loaded = [st |-> "none", wallets |-> <<>>, failed |-> <<>>]
    /\ plain = [t |-> "null", v |-> 0]
    /\ sealed = <<>>
    /\ opened = [st |-> "none", val |-> [t |-> "null", v |-> 0]]

(***************************************************************************)
(* start(criteria), from the validation on: the part that runs after       *)
(* "if (this.isRunning) await this.stop()".  callsBase is the counters     *)
(* with this call counted.                                                 *)
(***************************************************************************)
StartReject(c, msg, callsBase) ==
    /\ onErrorLog' = Append(onErrorLog, msg)
    /\ startLog' = Append(startLog, [ret |-> FALSE, spawned |-> {}])
    /\ calls' = callsBase
    /\ UNCHANGED <<isRunning, currentCriteria, foundWallets, telemetry, arrays, wk, out>>

StartSpawn(c, suffixes, callsBase) ==
    LET maxWorkers       == NUM_WORKERS
        requestedWorkers == IF c.workers # 0 THEN c.workers ELSE maxWorkers
        numWorkers       == Max(1, Min(requestedWorkers, maxWorkers))
        batchSize        == IF c.batchSize # 0 THEN c.batchSize ELSE DEFAULT_BATCH_SIZE
        first            == Len(wk)
        spawned          == [i \in 1..numWorkers |-> first + i]
    IN  /\ isRunning' = TRUE
        /\ currentCriteria' = [prefix |-> c.prefix, suffixString |-> c.suffixString,
                               matchCase |-> c.matchCase, workers |-> c.workers,
                               batchSize |-> c.batchSize, suffixes |-> suffixes]
        /\ foundWallets' = <<>>
        /\ telemetry' = [totalAttempts |-> 0, keysPerSecond |-> 0,
                         activeWorkers |-> numWorkers, speedHistory |-> <<>>,
                         workerStats |-> [i \in 0..(numWorkers - 1) |->
                                            [attempts |-> 0, speed |-> 0]],
                         foundCount |-> 0]
        /\ wk' = wk \o [i \in 1..numWorkers |->
                          [workerId |-> i - 1, run |-> callsBase.run + 1,
                           criteria |-> [prefix |-> c.prefix, suffixes |-> suffixes,
                                         matchCase |-> c.matchCase],
                           batchSize |-> batchSize, st |-> "mining",
                           running |-> TRUE, stopMsg |-> FALSE, localAttempts |-> 0,
                           yielded |-> FALSE, stopRequested |-> FALSE,
                           \* the attempts made when the pending stop message
                           \* was posted
                           sigAt |-> 0,
                           \* the attempts of its last progress report
                           lastReport |-> 0]]
        /\ out' = out \o [i \in 1..numWorkers |-> <<>>]
        /\ arrays' = [arrays EXCEPT ![workersRef] = @ \o spawned]
        /\ startLog' = Append(startLog, [ret |-> TRUE, spawned |-> Range(spawned)])
        /\ calls' = [callsBase EXCEPT !.run = @ + 1]
        /\ UNCHANGED onErrorLog

\* parseSuffixes(criteria.suffixString || ''), tabulated over the criteria
\* the callers pass
suffixResultOf ==
    [c \in StartCriteria \cup CountCriteria \cup HistoryCriteria
              \cup ValidateCriteria \cup YieldCriteria |->
        parseSuffixes(c.suffixString)]

StartBody(c, callsBase) ==
    LET suffixResult == suffixResultOf[c]
    IN  IF ~suffixResult.valid
        THEN StartReject(c, [kind |-> "suffix", invalidChar |-> suffixResult.invalidChar,
                             invalid |-> suffixResult.invalidSuffix], callsBase)
        ELSE IF c.prefix # <<>> /\ ~validateSuffix(c.prefix).valid
        THEN StartReject(c, [kind |-> "prefix",
                             invalidChar |-> validateSuffix(c.prefix).invalidChar,
                             invalid |-> c.prefix], callsBase)
        ELSE IF c.prefix = <<>> /\ Len(suffixResult.suffixes) = 0
        THEN StartReject(c, [kind |-> "notarget", invalidChar |-> NoChar,
                             invalid |-> <<>>], callsBase)
        ELSE StartSpawn(c, suffixResult.suffixes, callsBase)

(***************************************************************************)
(* stop(), up to its first await: isRunning = false, the stop message to   *)
(* every worker of this.workers, and the 100 ms timer.                     *)
(***************************************************************************)
StopBegin ==
    /\ isRunning' = FALSE
    /\ wk' = [u \in 1..Len(wk) |->
                IF u \notin Range(arrays[workersRef]) THEN wk[u]
                ELSE IF wk[u].st \in {"mining", "yield"}
                THEN [wk[u] EXCEPT !.stopMsg = TRUE,
                                   !.sigAt = IF wk[u].stopMsg THEN @
                                             ELSE wk[u].localAttempts]
                ELSE IF wk[u].st = "idle"
                THEN \* its loop has ended: the handler has nothing to interrupt
                     [wk[u] EXCEPT !.running = FALSE]
                ELSE wk[u]]
    /\ stopFrames' = stopFrames \cup
                        {[id |-> calls.stopCalls + 1, phase |-> "sleep", arr |-> 0,
                          idx |-> 0, waitOn |-> 0,
                          \* the workers its stop message went to
                          pool |-> Range(arrays[workersRef])]}

(***************************************************************************)
(* stop(), one step of "for (const worker of this.workers) await           *)
(* worker.terminate()" from the end of one await to the next: frame f      *)
(* looks at element i of array arr; after the last element it runs         *)
(* "this.workers = []; this.telemetry.activeWorkers = 0" and returns.      *)
(* microBase is the microtask queue this step leaves behind it.            *)
(***************************************************************************)
\* a variant of the end of stop() that leaves out "this.workers = []"
StopFinishKeep(f, microBase) ==
    LET waker == {[kind |-> "start", id |-> sf.sid] : sf \in {x \in startFrames : x.stop = f.id}}
    IN  /\ stopFrames' = stopFrames \ {f}
        /\ telemetry' = [telemetry EXCEPT !.activeWorkers = 0]
        /\ micro' = IF waker = {} THEN microBase
                    ELSE Append(microBase, CHOOSE m \in waker : TRUE)
        /\ UNCHANGED <<wk, workersRef, arrays>>

\* the end of stop(): "this.workers = []; this.telemetry.activeWorkers = 0"
StopFinish(f, microBase) ==
    LET rest  == stopFrames \ {f}
        held  == {g.arr : g \in {h \in rest : h.phase # "sleep"}}
        fresh == CHOOSE a \in ArrIds \ held : \A b \in ArrIds \ held : a <= b
        waker == {[kind |-> "start", id |-> sf.sid] : sf \in {x \in startFrames : x.stop = f.id}}
    IN  /\ stopFrames' = rest
        /\ workersRef' = fresh
        /\ arrays' = [a \in ArrIds |-> IF a \in held THEN arrays[a] ELSE <<>>]
        /\ telemetry' = [telemetry EXCEPT !.activeWorkers = 0]
        /\ micro' = IF waker = {} THEN microBase
                    ELSE Append(microBase, CHOOSE m \in waker : TRUE)
        /\ UNCHANGED wk

\* a variant of the terminate loop that terminates no worker
StopStepNoTerminate(f, arr, i, microBase) == StopFinish(f, microBase)

\* the terminate loop of stop(), from one await to the next
StopStep(f, arr, i, microBase) ==
    IF i > Len(arrays[arr])
    THEN StopFinish(f, microBase)
    ELSE LET w == arrays[arr][i]
         IN  IF wk[w].st = "exited"
             THEN \* terminate() of a thread that has exited: a resolved promise
                  /\ stopFrames' = (stopFrames \ {f}) \cup
                        {[f EXCEPT !.phase = "micro", !.arr = arr, !.idx = i,
                                   !.waitOn = 0]}
                  /\ micro' = Append(microBase, [kind |-> "stop", id |-> f.id])
                  /\ UNCHANGED <<wk, workersRef, arrays, telemetry>>
             ELSE \* terminate(): stop the thread, resolve at its 'exit'
                  /\ stopFrames' = (stopFrames \ {f}) \cup
                        {[f EXCEPT !.phase = "wait", !.arr = arr, !.idx = i,
                                   !.waitOn = w]}
                  /\ wk' = [wk EXCEPT ![w].stopRequested = TRUE]
                  /\ micro' = microBase
                  /\ UNCHANGED <<workersRef, arrays, telemetry>>

(***************************************************************************)
(* The callers (main.js): 'start-mining' calls start(criteria) and         *)
(* 'stop-mining' calls stop(), neither awaited by the next IPC event.      *)
(* Each action below is one task of the main thread's event loop; the      *)
(* promise continuations it makes ready run from the microtask queue       *)
(* before the next task.                                                   *)
(***************************************************************************)
Start(c) ==
    /\ micro = <<>>
    /\ calls.starts < scn.starts
    /\ IF isRunning
       THEN \* await this.stop()
            /\ StopBegin
            /\ startFrames' = startFrames \cup
                  {[sid |-> calls.starts + 1, criteria |-> c, stop |-> calls.stopCalls + 1]}
            /\ calls' = [calls EXCEPT !.starts = @ + 1, !.stopCalls = @ + 1, !.row = 0]
            /\ UNCHANGED <<workersRef, arrays, foundWallets, telemetry, currentCriteria,
                           saveFrames, micro, out, dvars, lvars>>
       ELSE /\ StartBody(c, [calls EXCEPT !.starts = @ + 1, !.row = 0])
            /\ UNCHANGED <<workersRef, fvars, dvars, onFoundLog>>
    /\ UNCHANGED <<mvars, svars, scn>>

Stop ==
    /\ micro = <<>>
    /\ calls.stops < scn.stops
    /\ StopBegin
    /\ calls' = [calls EXCEPT !.stops = @ + 1, !.stopCalls = @ + 1,
                             !.row = Min(2, @ + 1)]
    /\ UNCHANGED <<workersRef, arrays, foundWallets, telemetry, currentCriteria,
                   startFrames, saveFrames, micro, out, dvars, lvars, mvars, svars, scn>>

\* the 100 ms timer of the oldest sleeping stop() fires: its terminate loop
\* starts on the array this.workers refers to now
TimerFire(f) ==
    /\ micro = <<>>
    /\ f \in stopFrames
    /\ f.phase = "sleep"
    /\ \A g \in stopFrames : g.phase = "sleep" => f.id <= g.id
    /\ StopStep(f, workersRef, 1, <<>>)
    /\ UNCHANGED <<isRunning, foundWallets, currentCriteria, startFrames, saveFrames,
                   out, dvars, lvars, calls, mvars, svars, scn>>

\* the next promise continuation: a stop() after an await of its loop, or a
\* start() after its "await this.stop()"
RunMicrotask ==
    /\ micro # <<>>
    /\ LET m == Head(micro)
       IN  IF m.kind = "stop"
           THEN LET f == CHOOSE g \in stopFrames : g.id = m.id
                IN  /\ StopStep(f, f.arr, f.idx + 1, Tail(micro))
                    /\ UNCHANGED <<isRunning, foundWallets, currentCriteria, startFrames,
                                   saveFrames, out, dvars, lvars, calls>>
           ELSE LET sf == CHOOSE x \in startFrames : x.sid = m.id
                IN  /\ StartBody(sf.criteria, [calls EXCEPT !.row = 0])
                    /\ startFrames' = startFrames \ {sf}
                    /\ micro' = Tail(micro)
                    /\ UNCHANGED <<workersRef, stopFrames, saveFrames, dvars, onFoundLog>>
    /\ UNCHANGED <<mvars, svars, scn>>

\* a variant of clearFoundWallets that also deletes the saved files
ClearFoundWalletsAndFiles ==
    /\ micro = <<>>
    /\ foundWallets' = <<>>
    /\ telemetry' = [telemetry EXCEPT !.foundCount = 0]
    /\ disk' = EmptyFn
    /\ UNCHANGED <<isRunning, workersRef, arrays, currentCriteria, fvars, wvars, clock,
                   lvars, calls, mvars, svars, scn>>

\* a variant of clearFoundWallets that leaves foundCount as it was
ClearFoundWalletsKeepCount ==
    /\ micro = <<>>
    /\ foundWallets' = <<>>
    /\ UNCHANGED <<isRunning, workersRef, arrays, telemetry, currentCriteria, fvars,
                   wvars, dvars, lvars, calls, mvars, svars, scn>>

\* clearFoundWallets()
ClearFoundWallets ==
    /\ micro = <<>>
    /\ foundWallets' = <<>>
    /\ telemetry' = [telemetry EXCEPT !.foundCount = 0]
    /\ UNCHANGED <<isRunning, workersRef, arrays, currentCriteria, fvars, wvars, dvars,
                   lvars, calls, mvars, svars, scn>>

(***************************************************************************)
(* The worker threads.  They run in parallel with the main thread.         *)
(***************************************************************************)
\* a variant of the loop that ends at the first match
passEndOnMatch(found, yields) ==
    IF found THEN "idle" ELSE IF yields THEN "yield" ELSE "mining"

\* where mineLoop stands after a pass in which a key pair matched (found) or
\* none did: a match posts 'found' and the loop goes on, there is no break
\* or return; the pass ends in the next pass or in the yield
passEnd(found, yields) == IF yields THEN "yield" ELSE "mining"

\* const speed = elapsed > 0 ? Math.floor(localAttempts / elapsed) : 0, at
\* the report made after n attempts: what the scenario's timing gives
speedAt(n) ==
    scn.speeds[(((n \div REPORT_INTERVAL) - 1) % Len(scn.speeds)) + 1]

\* a variant of the report test that reports after every pass
reportDueEveryPass(n) == TRUE

\* if (localAttempts % REPORT_INTERVAL === 0), after a pass
reportDue(n) == n % REPORT_INTERVAL = 0

\* one pass of "for (let i = 0; i < batchSize && running; i++)" and the
\* progress report and yield test after it; among the key pairs of the pass
\* at most one matches (the last), with a fresh key
WorkerBatch(u) ==
    /\ u \in 1..Len(wk)
    /\ wk[u].st = "mining"
    /\ out[u] = <<>>
    /\ wk[u].localAttempts + wk[u].batchSize <= scn.attempts
    /\ LET n == wk[u].localAttempts + wk[u].batchSize
           progress == IF reportDue(n)
                       THEN <<[type |-> "progress", workerId |-> wk[u].workerId,
                               attempts |-> n, speed |-> speedAt(n)]>>
                       ELSE <<>>
           yields == n % YIELD_INTERVAL = 0
           after(found) == [wk EXCEPT ![u].localAttempts = n,
                                      ![u].st = passEnd(found, yields),
                                      ![u].yielded = @ \/ yields,
                                      ![u].lastReport = IF reportDue(n) THEN n ELSE @]
       IN  /\ \/ /\ out' = [out EXCEPT ![u] = progress]
                 /\ wk' = after(FALSE)
                 /\ UNCHANGED calls
              \/ /\ calls.keys < scn.keys
                 /\ wk' = after(TRUE)
                 /\ LET pk == AddressOf(calls.keys + 1)
                        r == checkCandidate(wk[u].criteria, pk)
                    IN  /\ r.found
                        /\ out' = [out EXCEPT ![u] =
                               <<[type |-> "found", workerId |-> wk[u].workerId,
                                  address |-> pk, key |-> calls.keys + 1,
                                  matchedSuffix |-> r.matchedSuffix,
                                  matchedPrefix |-> r.matchedPrefix,
                                  attempts |-> n, run |-> wk[u].run]>> \o progress]
                 /\ calls' = [calls EXCEPT !.keys = @ + 1]
    /\ UNCHANGED <<cvars, fvars, dvars, lvars, mvars, svars, scn>>

\* parentPort.on('message'): runs only between two calls of mineLoop
WorkerOnMessage(u) ==
    /\ u \in 1..Len(wk)
    /\ wk[u].st = "yield"
    /\ wk[u].stopMsg
    /\ wk' = [wk EXCEPT ![u].running = FALSE, ![u].stopMsg = FALSE, ![u].sigAt = 0]
    /\ UNCHANGED <<out, cvars, fvars, dvars, lvars, calls, mvars, svars, scn>>

\* a variant of the loop's end that posts no 'stopped' message
WorkerImmediateSilent(u) ==
    /\ u \in 1..Len(wk)
    /\ wk[u].st = "yield"
    /\ IF wk[u].running
       THEN wk' = [wk EXCEPT ![u].st = "mining"]
       ELSE wk' = [wk EXCEPT ![u].st = "idle"]
    /\ UNCHANGED <<out, cvars, fvars, dvars, lvars, calls, mvars, svars, scn>>

\* setImmediate(() => mineLoop()): the loop goes on, or ends with 'stopped'
WorkerImmediate(u) ==
    /\ u \in 1..Len(wk)
    /\ wk[u].st = "yield"
    /\ IF wk[u].running
       THEN /\ wk' = [wk EXCEPT ![u].st = "mining"]
            /\ UNCHANGED out
       ELSE /\ wk' = [wk EXCEPT ![u].st = "idle"]
            /\ out' = [out EXCEPT ![u] = Append(@, [type |-> "stopped",
                                                     workerId |-> wk[u].workerId,
                                                     attempts |-> wk[u].localAttempts])]
    /\ UNCHANGED <<cvars, fvars, dvars, lvars, calls, mvars, svars, scn>>

\* a fault inside mineLoop: caught by the try/catch around the first call,
\* uncaught (the thread dies) in a call made by setImmediate
WorkerThrow(u) ==
    /\ u \in 1..Len(wk)
    /\ wk[u].st = "mining"
    /\ calls.faults < scn.faults
    /\ calls' = [calls EXCEPT !.faults = @ + 1]
    /\ IF ~wk[u].yielded
       THEN /\ wk' = [wk EXCEPT ![u].st = "idle"]
            /\ out' = [out EXCEPT ![u] = Append(@, [type |-> "error",
                                                     workerId |-> wk[u].workerId])]
       ELSE /\ wk' = [wk EXCEPT ![u].st = "crashed"]
            /\ UNCHANGED out
    /\ UNCHANGED <<cvars, fvars, dvars, lvars, mvars, svars, scn>>

(***************************************************************************)
(* The controller's handlers of worker events.                             *)
(***************************************************************************)
\* the sum of one field over the entries ids of workerStats
RECURSIVE SumStats(_, _, _)
SumStats(stats, ids, field) ==
    IF ids = {} THEN 0
    ELSE LET i == CHOOSE x \in ids : TRUE
         IN  stats[i][field] + SumStats(stats, ids \ {i}, field)

\* the length above which updateTelemetry shifts the speed history
SPEED_HISTORY_LIMIT == 60

\* a variant of the history that drops the new sample when it is too long
pushSpeedPop(history, sample) ==
    LET pushed == Append(history, sample)
    IN  IF Len(pushed) > SPEED_HISTORY_LIMIT THEN history ELSE pushed

\* speedHistory.push({ time, speed }) and the shift when it is too long
pushSpeed(history, sample) ==
    LET pushed == Append(history, sample)
    IN  IF Len(pushed) > SPEED_HISTORY_LIMIT THEN Tail(pushed) ELSE pushed

\* a variant of updateTelemetry that leaves totalAttempts as it was
updateTelemetryStale(t) ==
    LET totalSpeed == SumStats(t.workerStats, DOMAIN t.workerStats, "speed")
    IN  [t EXCEPT !.keysPerSecond = totalSpeed,
                  !.activeWorkers = Len(arrays[workersRef]),
                  !.speedHistory = pushSpeed(@, [time |-> clock, speed |-> totalSpeed])]

\* updateTelemetry()
updateTelemetry(t) ==
    LET totalAttempts == SumStats(t.workerStats, DOMAIN t.workerStats, "attempts")
        totalSpeed    == SumStats(t.workerStats, DOMAIN t.workerStats, "speed")
    IN  [t EXCEPT !.totalAttempts = totalAttempts,
                  !.keysPerSecond = totalSpeed,
                  !.activeWorkers = Len(arrays[workersRef]),
                  !.speedHistory = pushSpeed(@, [time |-> clock, speed |-> totalSpeed])]

\* worker.on('message'), up to its first await
Deliver(u) ==
    /\ micro = <<>>
    /\ u \in 1..Len(wk)
    /\ wk[u].st # "exited"
    /\ out[u] # <<>>
    /\ out' = [out EXCEPT ![u] = Tail(@)]
    /\ LET msg == Head(out[u])
       IN  CASE msg.type = "progress" ->
                  /\ telemetry' = updateTelemetry(
                        [telemetry EXCEPT !.workerStats =
                            [i \in DOMAIN @ \cup {msg.workerId} |->
                                IF i = msg.workerId
                                THEN [attempts |-> msg.attempts, speed |-> msg.speed]
                                ELSE @[i]]])
                  /\ UNCHANGED <<saveFrames, onErrorLog>>
             [] msg.type = "found" ->
                  \* await this.saveWallet(walletData): await fs.mkdir(...);
                  \* seq records the place of the message among the 'found'
                  \* messages received
                  /\ saveFrames' = saveFrames \cup
                        {[key |-> msg.key, address |-> msg.address,
                          matchedSuffix |-> msg.matchedSuffix,
                          matchedPrefix |-> msg.matchedPrefix,
                          attempts |-> msg.attempts, run |-> msg.run,
                          pc |-> "mkdir", path |-> Null,
                          seq |-> Cardinality(saveFrames) + Len(onFoundLog) + 1]}
                  /\ UNCHANGED <<telemetry, onErrorLog>>
             [] msg.type = "error" ->
                  /\ onErrorLog' = Append(onErrorLog,
                        [kind |-> "worker", invalidChar |-> NoChar, invalid |-> <<>>])
                  /\ UNCHANGED <<telemetry, saveFrames>>
             [] OTHER ->
                  UNCHANGED <<telemetry, saveFrames, onErrorLog>>
    /\ UNCHANGED <<isRunning, workersRef, arrays, foundWallets, currentCriteria,
                   stopFrames, startFrames, micro, wk, dvars, onFoundLog, startLog,
                   calls, mvars, svars, scn>>

\* worker.on('error'): the thread of worker u died of an uncaught fault;
\* its 'exit' event follows
ErrorEvent(u) ==
    /\ micro = <<>>
    /\ u \in 1..Len(wk)
    /\ wk[u].st = "crashed"
    /\ out[u] = <<>>
    /\ telemetry' = [telemetry EXCEPT !.activeWorkers = @ - 1]
    /\ wk' = [wk EXCEPT ![u].st = "errored"]
    /\ UNCHANGED <<isRunning, workersRef, arrays, foundWallets, currentCriteria,
                   fvars, out, dvars, lvars, calls, mvars, svars, scn>>

\* worker.on('exit'): the thread of worker u has ended (terminate(), or an
\* uncaught fault, after its 'error' event); then the terminate() promises
\* of the stop() calls waiting for it
ExitEvent(u) ==
    /\ micro = <<>>
    /\ u \in 1..Len(wk)
    /\ wk[u].st # "exited"
    /\ \/ wk[u].st = "errored"
       \/ wk[u].stopRequested /\ wk[u].st # "crashed"
    /\ out[u] = <<>>
    /\ LET waiting == {f \in stopFrames : f.phase = "wait" /\ f.waitOn = u}
           order == CHOOSE q \in [1..Cardinality(waiting) -> waiting] :
                       \A i, j \in 1..Cardinality(waiting) : i < j => q[i].id < q[j].id
       IN  /\ telemetry' = [telemetry EXCEPT !.activeWorkers = Max(0, @ - 1)]
           /\ stopFrames' = (stopFrames \ waiting) \cup
                               {[f EXCEPT !.phase = "micro", !.waitOn = 0] : f \in waiting}
           /\ micro' = [i \in 1..Cardinality(waiting) |->
                           [kind |-> "stop", id |-> order[i].id]]
    /\ wk' = [wk EXCEPT ![u] = [@ EXCEPT !.st = "exited", !.running = FALSE,
                                         !.stopMsg = FALSE, !.stopRequested = FALSE,
                                         !.sigAt = 0, !.lastReport = 0,
                                         !.yielded = FALSE, !.localAttempts = 0]]
    /\ UNCHANGED <<isRunning, workersRef, arrays, foundWallets, currentCriteria,
                   startFrames, saveFrames, out, dvars, lvars, calls, mvars, svars, scn>>

(***************************************************************************)
(* saveWallet(walletData) and the rest of the 'found' handler.             *)
(***************************************************************************)
RecordFile(ts) == <<"wallet", ts>>

\* `${walletData.address.substring(0, 8)}_keypair.json`
KeyFile(address) == <<"keypair", SubSeq(address, 1, Min(8, Len(address)))>>

WriteFile(d, name, content) ==
    [n \in DOMAIN d \cup {name} |-> IF n = name THEN content ELSE d[n]]

\* a variant of the 'found' handler that reports one discovery for each
\* matched pattern: a later match of the same pattern is dropped
HandlerFinishOnce(fr, savedPath) ==
    LET walletData == [key |-> fr.key, address |-> fr.address,
                       matchedSuffix |-> fr.matchedSuffix,
                       matchedPrefix |-> fr.matchedPrefix, attempts |-> fr.attempts,
                       run |-> fr.run, savedPath |-> savedPath]
    IN  /\ saveFrames' = saveFrames \ {fr}
        /\ IF \E i \in 1..Len(foundWallets) :
                  /\ foundWallets[i].matchedSuffix = fr.matchedSuffix
                  /\ foundWallets[i].matchedPrefix = fr.matchedPrefix
           THEN UNCHANGED <<foundWallets, telemetry, onFoundLog>>
           ELSE /\ foundWallets' = Append(foundWallets, walletData)
                /\ telemetry' = [telemetry EXCEPT !.foundCount = Len(foundWallets')]
                /\ onFoundLog' = Append(onFoundLog, [wallet |-> walletData,
                                                     totalFound |-> Len(foundWallets')])

\* a variant of the 'found' handler that calls this.onFound before the push
HandlerFinishNotifyFirst(fr, savedPath) ==
    LET walletData == [key |-> fr.key, address |-> fr.address,
                       matchedSuffix |-> fr.matchedSuffix,
                       matchedPrefix |-> fr.matchedPrefix, attempts |-> fr.attempts,
                       run |-> fr.run, savedPath |-> savedPath]
    IN  /\ onFoundLog' = Append(onFoundLog, [wallet |-> walletData,
                                             totalFound |-> Len(foundWallets)])
        /\ foundWallets' = Append(foundWallets, walletData)
        /\ telemetry' = [telemetry EXCEPT !.foundCount = Len(foundWallets')]
        /\ saveFrames' = saveFrames \ {fr}

\* a variant of the 'found' handler that drops a discovery it could not save
HandlerFinishSaved(fr, savedPath) ==
    LET walletData == [key |-> fr.key, address |-> fr.address,
                       matchedSuffix |-> fr.matchedSuffix,
                       matchedPrefix |-> fr.matchedPrefix, attempts |-> fr.attempts,
                       run |-> fr.run, savedPath |-> savedPath]
    IN  /\ saveFrames' = saveFrames \ {fr}
        /\ IF savedPath = Null
           THEN UNCHANGED <<foundWallets, telemetry, onFoundLog>>
           ELSE /\ foundWallets' = Append(foundWallets, walletData)
                /\ telemetry' = [telemetry EXCEPT !.foundCount = Len(foundWallets')]
                /\ onFoundLog' = Append(onFoundLog, [wallet |-> walletData,
                                                     totalFound |-> Len(foundWallets')])

\* a variant of the 'found' handler that also refreshes the telemetry
HandlerFinishRefresh(fr, savedPath) ==
    LET walletData == [key |-> fr.key, address |-> fr.address,
                       matchedSuffix |-> fr.matchedSuffix,
                       matchedPrefix |-> fr.matchedPrefix, attempts |-> fr.attempts,
                       run |-> fr.run, savedPath |-> savedPath]
    IN  /\ foundWallets' = Append(foundWallets, walletData)
        /\ telemetry' = updateTelemetry(
                            [telemetry EXCEPT !.foundCount = Len(foundWallets')])
        /\ onFoundLog' = Append(onFoundLog, [wallet |-> walletData,
                                             totalFound |-> Len(foundWallets')])
        /\ saveFrames' = saveFrames \ {fr}

\* after "await this.saveWallet(walletData)": savedPath, the push, foundCount
\* and this.onFound
HandlerFinish(fr, savedPath) ==
    LET walletData == [key |-> fr.key, address |-> fr.address,
                       matchedSuffix |-> fr.matchedSuffix,
                       matchedPrefix |-> fr.matchedPrefix, attempts |-> fr.attempts,
                       run |-> fr.run, savedPath |-> savedPath]
    IN  /\ foundWallets' = Append(foundWallets, walletData)
        /\ telemetry' = [telemetry EXCEPT !.foundCount = Len(foundWallets')]
        /\ onFoundLog' = Append(onFoundLog, [wallet |-> walletData,
                                             totalFound |-> Len(foundWallets')])
        /\ saveFrames' = saveFrames \ {fr}

\* a file-system call of saveWallet completes; ok = FALSE: it throws, and
\* the catch returns null
FsDone(fr, ok) ==
    /\ micro = <<>>
    /\ fr \in saveFrames
    /\ IF ok THEN UNCHANGED calls
       ELSE /\ calls.ioFaults < scn.ioFaults
            /\ calls' = [calls EXCEPT !.ioFaults = @ + 1]
    /\ CASE ~ok ->
              /\ HandlerFinish(fr, Null)
              /\ UNCHANGED dvars
         [] ok /\ fr.pc = "mkdir" ->
              \* the file name from new Date(), then fs.writeFile(filepath, ...)
              /\ \E now \in {clock, clock + 1} :
                    /\ now >= 1
                    /\ now <= MaxClock
                    /\ clock' = now
                    /\ saveFrames' = (saveFrames \ {fr}) \cup
                          {[fr EXCEPT !.pc = "record", !.path = RecordFile(now)]}
              /\ UNCHANGED <<disk, foundWallets, telemetry, onFoundLog>>
         [] ok /\ fr.pc = "record" ->
              \* the record is written; fs.writeFile(cliFilepath, ...)
              /\ disk' = WriteFile(disk, fr.path, [key |-> fr.key, address |-> fr.address])
              /\ saveFrames' = (saveFrames \ {fr}) \cup {[fr EXCEPT !.pc = "keyfile"]}
              /\ UNCHANGED <<clock, foundWallets, telemetry, onFoundLog>>
         [] ok /\ fr.pc = "keyfile" ->
              /\ disk' = WriteFile(disk, KeyFile(fr.address), [key |-> fr.key])
              /\ HandlerFinish(fr, fr.path)
              /\ UNCHANGED clock
    /\ UNCHANGED <<isRunning, workersRef, arrays, currentCriteria, stopFrames,
                   startFrames, micro, wvars, onErrorLog, startLog, mvars, svars, scn>>

(***************************************************************************)
(* The controller specification.                                           *)
(***************************************************************************)
Init ==
    /\ CtlInit
    /\ encryptionKey = <<>>
    /\ scn \in Scenarios
    /\ mCriteria = Null
    /\ mPk = <<>>
    /\ mOut = <<>>
    /\ mAttempts = 0
    /\ mFeed = <<>>
    /\ mTime = TimeInit(DEFAULT_BATCH_SIZE)

Next ==
    \/ \E c \in StartCriteria : Start(c)
    \/ Stop
    \/ \E f \in stopFrames : TimerFire(f)
    \/ RunMicrotask
    \/ ClearFoundWallets
    \/ \E u \in 1..Len(wk) : WorkerBatch(u)
    \/ \E u \in 1..Len(wk) : WorkerOnMessage(u)
    \/ \E u \in 1..Len(wk) : WorkerImmediate(u)
    \/ \E u \in 1..Len(wk) : WorkerThrow(u)
    \/ \E u \in 1..Len(wk) : Deliver(u)
    \/ \E u \in 1..Len(wk) : ErrorEvent(u)
    \/ \E u \in 1..Len(wk) : ExitEvent(u)
    \/ \E fr \in saveFrames, ok \in BOOLEAN : FsDone(fr, ok)

Spec == Init /\ [][Next]_vars

\* a task of the main thread's event loop that the stop() calls wait for: a
\* timer that is due, a promise continuation, a message posted by a worker,
\* the 'exit' of a thread that was terminated or died
EventLoopTask ==
    \/ \E f \in stopFrames : TimerFire(f)
    \/ RunMicrotask
    \/ \E u \in 1..Len(wk) : Deliver(u)
    \/ \E u \in 1..Len(wk) : ErrorEvent(u)
    \/ \E u \in 1..Len(wk) : ExitEvent(u)

\* The controller specification with the scheduling Node.js guarantees: the
\* event loop does not stall while one of these tasks is ready.  Nothing is
\* assumed of the callers, of the file system or of the workers' progress.
FairSpec == Spec /\ WF_vars(EventLoopTask)

\* a step of a worker thread's own event loop
WorkerTask ==
    \/ \E u \in 1..Len(wk) : WorkerBatch(u)
    \/ \E u \in 1..Len(wk) : WorkerOnMessage(u)
    \/ \E u \in 1..Len(wk) : WorkerImmediate(u)

\* a task of the main thread that takes what the workers posted: a promise
\* continuation, a message
PortTask ==
    \/ RunMicrotask
    \/ \E u \in 1..Len(wk) : Deliver(u)

\* a worker's event loop handles the messages that are on its port (poll
\* phase) before it runs a setImmediate callback (check phase)
PollBeforeCheck ==
    \A u \in 1..Len(wk) : WorkerImmediate(u) => ~wk[u].stopMsg

SignalNext == Next /\ PollBeforeCheck

\* The controller specification with running worker threads: a worker
\* thread that can take a step does, the stop message is on the port when
\* the worker yields, and the main thread takes the workers' messages.
\* Nothing is assumed of the callers, of the file system or of the timer
\* of stop(): a worker may be terminated at any time, or never.
SignalSpec ==
    Init /\ [][SignalNext]_vars /\ WF_vars(WorkerTask) /\ WF_vars(PortTask)

(***************************************************************************)
(* The worker-count specification: one start() on a machine of 1..MaxCpus  *)
(* CPUs with each requested worker count, and the run it begins.           *)
(***************************************************************************)
CountInit ==
    /\ CtlInit
    /\ encryptionKey = <<>>
    /\ scn \in {[cpus |-> n, starts |-> 1, stops |-> 0, keys |-> 0, faults |-> 0,
                 ioFaults |-> 0, attempts |-> MaxAttempts, speeds |-> <<2, 3>>] :
                    n \in 1..MaxCpus}
    /\ mCriteria = Null
    /\ mPk = <<>>
    /\ mOut = <<>>
    /\ mAttempts = 0
    /\ mFeed = <<>>
    /\ mTime = TimeInit(DEFAULT_BATCH_SIZE)

CountNext ==
    \/ \E c \in CountCriteria : Start(c)
    \/ \E u \in 1..Len(wk) : WorkerBatch(u)
    \/ \E u \in 1..Len(wk) : Deliver(u)

CountSpec == CountInit /\ [][CountNext]_vars

(***************************************************************************)
(* The validation specification: one start() with each pattern string as   *)
(* its suffix string or as its prefix.                                     *)
(***************************************************************************)
ValidateInit ==
    /\ CtlInit
    /\ encryptionKey = <<>>
    /\ scn = [cpus |-> 2, starts |-> 1, stops |-> 0, keys |-> 0, faults |-> 0,
              ioFaults |-> 0, attempts |-> MaxAttempts, speeds |-> <<2, 3>>]
    /\ mCriteria = Null
    /\ mPk = <<>>
    /\ mOut = <<>>
    /\ mAttempts = 0
    /\ mFeed = <<>>
    /\ mTime = TimeInit(DEFAULT_BATCH_SIZE)

ValidateNext == \E c \in ValidateCriteria : Start(c)

ValidateSpec == ValidateInit /\ [][ValidateNext]_vars

(***************************************************************************)
(* The yield specification: one start() with each batch size, the run of   *)
(* its worker over several yield intervals, and a stop() at any time whose *)
(* timer has not fired.                                                    *)
(***************************************************************************)
YieldInit ==
    /\ CtlInit
    /\ encryptionKey = <<>>
    /\ scn = [cpus |-> 2, starts |-> 1, stops |-> 1, keys |-> 0, faults |-> 0,
              ioFaults |-> 0, attempts |-> MaxYields * YIELD_INTERVAL,
              speeds |-> <<2, 3>>]
    /\ mCriteria = Null
    /\ mPk = <<>>
    /\ mOut = <<>>
    /\ mAttempts = 0
    /\ mFeed = <<>>
    /\ mTime = TimeInit(DEFAULT_BATCH_SIZE)

YieldNext ==
    \/ \E c \in YieldCriteria : Start(c)
    \/ Stop
    \/ \E u \in 1..Len(wk) : WorkerBatch(u)
    \/ \E u \in 1..Len(wk) : WorkerOnMessage(u)
    \/ \E u \in 1..Len(wk) : WorkerImmediate(u)
    \/ \E u \in 1..Len(wk) : Deliver(u)

YieldSpec == YieldInit /\ [][YieldNext]_vars

(***************************************************************************)
(* The progress-speed specification: one worker, the clock it reads and    *)
(* the progress reports it posts over several yield intervals.  A pass and *)
(* a return to the loop each take 0..MaxPassMs milliseconds.               *)
(***************************************************************************)
\* const elapsed = (Date.now() - startTime) / 1000;
\* const speed = elapsed > 0 ? Math.floor(localAttempts / elapsed) : 0
progressSpeed(localAttempts, now, startTime) ==
    LET ms == now - startTime
    IN  IF ms > 0 THEN (localAttempts * 1000) \div ms ELSE 0

SpeedInit ==
    /\ CtlInit
    /\ encryptionKey = <<>>
    /\ scn = [cpus |-> 2, starts |-> 0, stops |-> 0, keys |-> 0, faults |-> 0,
              ioFaults |-> 0, attempts |-> MaxYields * YIELD_INTERVAL,
              speeds |-> <<2, 3>>]
    /\ mCriteria = Null
    /\ mPk = <<>>
    /\ mOut = <<>>
    /\ mAttempts = 0
    /\ mFeed = <<>>
    /\ mTime \in {TimeInit(b) : b \in {25000, YIELD_INTERVAL}}

\* one pass of the batch loop, which takes d ms, with the progress report
\* and the yield test after it
SpeedPass(d) ==
    /\ mTime.pc = "loop"
    /\ mAttempts + mTime.batchSize <= scn.attempts
    /\ LET n   == mAttempts + mTime.batchSize
           now == mTime.now + d
       IN  /\ mAttempts' = n
           /\ mOut' = IF n % REPORT_INTERVAL = 0
                      THEN Append(mOut, [type |-> "progress", attempts |-> n,
                                         speed |-> progressSpeed(n, now, mTime.startTime)])
                      ELSE mOut
           /\ mTime' = [mTime EXCEPT !.now = now,
                                     !.pc = IF n % YIELD_INTERVAL = 0 THEN "yield"
                                            ELSE "loop"]
    /\ UNCHANGED <<mCriteria, mPk, mFeed, svars, cvars, fvars, wvars, dvars, lvars,
                   calls, scn>>

\* setImmediate(() => mineLoop()), d ms after the return: the new call
\* reads its startTime
SpeedReenter(d) ==
    /\ mTime.pc = "yield"
    /\ mTime' = [mTime EXCEPT !.now = @ + d, !.startTime = mTime.now + d,
                              !.pc = "loop"]
    /\ UNCHANGED <<mCriteria, mPk, mOut, mAttempts, mFeed, svars, cvars, fvars, wvars,
                   dvars, lvars, calls, scn>>

SpeedNext ==
    \/ \E d \in 0..MaxPassMs : SpeedPass(d)
    \/ \E d \in 0..MaxPassMs : SpeedReenter(d)

SpeedSpec == SpeedInit /\ [][SpeedNext]_vars

(***************************************************************************)
(* The fault specification: one run of two workers on a three-CPU machine, *)
(* in which up to MaxCrashes faults are raised, and a stop().              *)
(***************************************************************************)
FaultInit ==
    /\ CtlInit
    /\ encryptionKey = <<>>
    /\ scn = [cpus |-> 3, starts |-> 1, stops |-> 1, keys |-> 0,
              faults |-> MaxCrashes, ioFaults |-> 0, attempts |-> MaxAttempts,
              speeds |-> <<2, 3>>]
    /\ mCriteria = Null
    /\ mPk = <<>>
    /\ mOut = <<>>
    /\ mAttempts = 0
    /\ mFeed = <<>>
    /\ mTime = TimeInit(DEFAULT_BATCH_SIZE)

FaultNext ==
    \/ \E c \in StartCriteria : Start(c)
    \/ Stop
    \/ \E f \in stopFrames : TimerFire(f)
    \/ RunMicrotask
    \/ \E u \in 1..Len(wk) : WorkerBatch(u)
    \/ \E u \in 1..Len(wk) : WorkerOnMessage(u)
    \/ \E u \in 1..Len(wk) : WorkerImmediate(u)
    \/ \E u \in 1..Len(wk) : WorkerThrow(u)
    \/ \E u \in 1..Len(wk) : Deliver(u)
    \/ \E u \in 1..Len(wk) : ErrorEvent(u)
    \/ \E u \in 1..Len(wk) : ExitEvent(u)

FaultSpec == FaultInit /\ [][FaultNext]_vars

(***************************************************************************)
(* The speed-history specification: one start(), and the progress reports  *)
(* of the run it begins: a long run of one worker on a two-CPU machine, a  *)
(* short run of two workers on a three-CPU machine.                        *)
(***************************************************************************)
HistoryInit ==
    /\ CtlInit
    /\ encryptionKey = <<>>
    /\ scn \in {[cpus |-> 2, starts |-> 1, stops |-> 0, keys |-> 0, faults |-> 0,
                 ioFaults |-> 0, attempts |-> MaxReports * REPORT_INTERVAL,
                 speeds |-> <<3, 5, 4, 0, 6, 2, 1>>],
                [cpus |-> 3, starts |-> 1, stops |-> 0, keys |-> 0, faults |-> 0,
                 ioFaults |-> 0, attempts |-> 3 * REPORT_INTERVAL,
                 speeds |-> <<2, 3>>]}
    /\ mCriteria = Null
    /\ mPk = <<>>
    /\ mOut = <<>>
    /\ mAttempts = 0
    /\ mFeed = <<>>
    /\ mTime = TimeInit(DEFAULT_BATCH_SIZE)

HistoryNext ==
    \/ \E c \in HistoryCriteria : Start(c)
    \/ \E u \in 1..Len(wk) : WorkerBatch(u)
    \/ \E u \in 1..Len(wk) : WorkerImmediate(u)
    \/ \E u \in 1..Len(wk) : Deliver(u)

HistorySpec == HistoryInit /\ [][HistoryNext]_vars

(***************************************************************************)
(* JSON.stringify and JSON.parse on the values a wallet record is made of: *)
(* strings, non-negative integers, booleans, null, arrays and objects (an  *)
(* object is the sequence of its <<key, value>> pairs, in insertion order).*)
(***************************************************************************)
JsStr(s) == [t |-> "string", v |-> s]
JsNum(n) == [t |-> "number", v |-> n]
JsBool(b) == [t |-> "boolean", v |-> b]
JsNull == [t |-> "null", v |-> 0]
JsArr(q) == [t |-> "array", v |-> q]
JsObj(q) == [t |-> "object", v |-> q]

DigitChars == <<"0", "1", "2", "3", "4", "5", "6", "7", "8", "9">>

IsDigit(c) == \E d \in 1..10 : DigitChars[d] = c

DigitVal(c) == (CHOOSE d \in 1..10 : DigitChars[d] = c) - 1

RECURSIVE NumToChars(_)
NumToChars(n) ==
    IF n < 10 THEN <<DigitChars[n + 1]>>
    ELSE NumToChars(n \div 10) \o <<DigitChars[(n % 10) + 1]>>

\* the places of a sequence, in order
Places(s) == [p \in 1..Len(s) |-> p]

\* the escapes JSON.stringify puts into a string: a backslash before every
\* quote and every backslash
EscapeString(s) ==
    LET escaped(p) == s[(p + 1) \div 2] \in {"\"", "\\"}
        kept(p) == p % 2 = 0 \/ escaped(p)
        places == SelectSeq(Places(s \o s), kept)
    IN  [k \in 1..Len(places) |->
            IF places[k] % 2 = 1 THEN "\\" ELSE s[places[k] \div 2]]

Quote(s) == <<"\"">> \o EscapeString(s) \o <<"\"">>

\* JSON.stringify(value)
RECURSIVE JsonStringify(_), StringifyItems(_), StringifyFields(_)
JsonStringify(x) ==
    CASE x.t = "string"  -> Quote(x.v)
      [] x.t = "number"  -> NumToChars(x.v)
      [] x.t = "boolean" -> IF x.v THEN <<"t", "r", "u", "e">>
                            ELSE <<"f", "a", "l", "s", "e">>
      [] x.t = "null"    -> <<"n", "u", "l", "l">>
      [] x.t = "array"   -> <<"[">> \o StringifyItems(x.v) \o <<"]">>
      [] x.t = "object"  -> <<"{">> \o StringifyFields(x.v) \o <<"}">>

StringifyItems(q) ==
    IF q = <<>> THEN <<>>
    ELSE JsonStringify(Head(q))
            \o (IF Len(q) > 1 THEN <<",">> \o StringifyItems(Tail(q)) ELSE <<>>)

StringifyFields(q) ==
    IF q = <<>> THEN <<>>
    ELSE Quote(Head(q)[1]) \o <<":">> \o JsonStringify(Head(q)[2])
            \o (IF Len(q) > 1 THEN <<",">> \o StringifyFields(Tail(q)) ELSE <<>>)

\* The({e(v) : v \in {x}}) is e(x): the one element of the set.  It is
\* written so where x is costly and e uses v several times, since v stands
\* for the value of x while a name defined by LET stands for its expression.
The(S) == CHOOSE x \in S : TRUE

\* the result of a parse: a value and the position after it, or a SyntaxError
ParseFail == [ok |-> FALSE, val |-> JsNull, next |-> 0]

ParseOk(v, n) == [ok |-> TRUE, val |-> v, next |-> n]

RECURSIVE SkipWs(_, _)
SkipWs(s, i) == IF i <= Len(s) /\ s[i] = " " THEN SkipWs(s, i + 1) ELSE i

\* the number of backslashes in a row that end just before place j, in a
\* string literal whose first character is at place i
BackslashesBefore(s, i, j) ==
    IF j - 1 < i \/ s[j - 1] # "\\" THEN 0
    ELSE The({ IF others = {} THEN j - i
               ELSE j - 1 - CHOOSE m \in others : \A o \in others : o <= m :
               others \in {{m \in i..(j - 1) : s[m] # "\\"}} })

\* the string literal that ends with the unescaped quote at place end, its
\* first character at place i: a backslash that is not escaped itself must
\* escape a quote or a backslash
StringUpTo(s, i, end) ==
    LET escapes(p) == s[p] = "\\" /\ BackslashesBefore(s, i, p) % 2 = 0
        kept(p) == ~escapes(p)
    IN  IF \E p \in i..(end - 1) : escapes(p) /\ s[p + 1] \notin {"\"", "\\"}
        THEN ParseFail
        ELSE The({ ParseOk([k \in 1..Len(places) |-> s[places[k]]], end + 1) :
                   places \in {SelectSeq([p \in 1..(end - i) |-> i + p - 1], kept)} })

\* the characters of a string literal, from after its opening quote at
\* place i - 1: it ends at the first quote that no backslash escapes
ParseStringBody(s, i) ==
    The({ IF closing = {} THEN ParseFail
          ELSE StringUpTo(s, i, CHOOSE j \in closing : \A o \in closing : j <= o) :
          closing \in {{j \in i..Len(s) :
                          s[j] = "\"" /\ BackslashesBefore(s, i, j) % 2 = 0}} })

RECURSIVE ParseDigits(_, _, _)
ParseDigits(s, i, acc) ==
    IF i <= Len(s) /\ IsDigit(s[i])
    THEN ParseDigits(s, i + 1, acc * 10 + DigitVal(s[i]))
    ELSE ParseOk(JsNum(acc), i)

\* a number: no leading zero
ParseNumber(s, i) ==
    IF s[i] = "0"
    THEN IF i + 1 <= Len(s) /\ IsDigit(s[i + 1]) THEN ParseFail
         ELSE ParseOk(JsNum(0), i + 1)
    ELSE ParseDigits(s, i, 0)

HasLiteral(s, i, lit) ==
    i + Len(lit) - 1 <= Len(s) /\ SubSeq(s, i, i + Len(lit) - 1) = lit

RECURSIVE ParseValueAt(_, _), ParseItems(_, _, _), ParseMember(_, _),
          ParseFields(_, _, _)
\* the value that begins at place i, which is no white space
ParseValueAt(s, i) ==
    IF i > Len(s) THEN ParseFail
    ELSE CASE s[i] = "\"" ->
                The({ IF r.ok THEN ParseOk(JsStr(r.val), r.next) ELSE ParseFail :
                      r \in {ParseStringBody(s, i + 1)} })
           [] IsDigit(s[i]) -> ParseNumber(s, i)
           [] s[i] = "[" ->
                The({ IF j <= Len(s) /\ s[j] = "]" THEN ParseOk(JsArr(<<>>), j + 1)
                      ELSE ParseItems(s, j, <<>>) :
                      j \in {SkipWs(s, i + 1)} })
           [] s[i] = "{" ->
                The({ IF j <= Len(s) /\ s[j] = "}" THEN ParseOk(JsObj(<<>>), j + 1)
                      ELSE ParseFields(s, j, <<>>) :
                      j \in {SkipWs(s, i + 1)} })
           [] HasLiteral(s, i, <<"t", "r", "u", "e">>) -> ParseOk(JsBool(TRUE), i + 4)
           [] HasLiteral(s, i, <<"f", "a", "l", "s", "e">>) -> ParseOk(JsBool(FALSE), i + 5)
           [] HasLiteral(s, i, <<"n", "u", "l", "l">>) -> ParseOk(JsNull, i + 4)
           [] OTHER -> ParseFail

\* the value after the white space from place i on
ParseValue(s, i) == The({ ParseValueAt(s, j) : j \in {SkipWs(s, i)} })

\* the elements of an array from place i on, acc the elements before them
ParseItems(s, i, acc) ==
    The({ LET j == SkipWs(s, r.next)
          IN  IF ~r.ok \/ j > Len(s) THEN ParseFail
              ELSE IF s[j] = "," THEN ParseItems(s, j + 1, Append(acc, r.val))
              ELSE IF s[j] = "]" THEN ParseOk(JsArr(Append(acc, r.val)), j + 1)
              ELSE ParseFail :
          r \in {ParseValue(s, i)} })

\* the value of the member whose key k ends before place c, where the colon
\* is to be, and the place of what follows the member
ParseMemberValue(s, k, c) ==
    IF c > Len(s) \/ s[c] # ":" THEN ParseFail
    ELSE The({ IF r.ok THEN ParseOk(<<k, r.val>>, SkipWs(s, r.next)) ELSE ParseFail :
               r \in {ParseValue(s, c + 1)} })

\* one "key": value member of an object
ParseMember(s, i0) ==
    The({ IF i > Len(s) \/ s[i] # "\"" THEN ParseFail
          ELSE The({ IF k.ok THEN ParseMemberValue(s, k.val, SkipWs(s, k.next))
                     ELSE ParseFail :
                     k \in {ParseStringBody(s, i + 1)} }) :
          i \in {SkipWs(s, i0)} })

\* the members of an object from place i on, acc the members before them
ParseFields(s, i, acc) ==
    The({ IF ~m.ok \/ m.next > Len(s) THEN ParseFail
          ELSE IF s[m.next] = "," THEN ParseFields(s, m.next + 1, Append(acc, m.val))
          ELSE IF s[m.next] = "}" THEN ParseOk(JsObj(Append(acc, m.val)), m.next + 1)
          ELSE ParseFail :
          m \in {ParseMember(s, i)} })

\* the whole text s is one value and white space
ParseText(s) ==
    The({ IF r.ok /\ SkipWs(s, r.next) = Len(s) + 1
          THEN [ok |-> TRUE, val |-> r.val]
          ELSE [ok |-> FALSE, val |-> JsNull] :
          r \in {ParseValue(s, 1)} })

\* JSON.parse(text): the value, or ok = FALSE where it throws a SyntaxError
JsonParse(text) == The({ ParseText(s) : s \in {text} })

(***************************************************************************)
(* Text as bytes, bytes as hexadecimal text, and the cipher of encrypt()   *)
(* and decrypt().  A character is one of the printable ASCII characters,   *)
(* whose UTF-8 encoding is one byte (the grave accent is written U+0060).    *)
(***************************************************************************)
Ascii ==
    <<
      " ", "!", "\"", "#", "$", "%", "&", "'", "(", ")", "*", "+", ",",
      "-", ".", "/", "0", "1", "2", "3", "4", "5", "6", "7", "8", "9", ":",
      ";", "<", "=", ">", "?", "@", "A", "B", "C", "D", "E", "F", "G", "H",
      "I", "J", "K", "L", "M", "N", "O", "P", "Q", "R", "S", "T", "U", "V",
      "W", "X", "Y", "Z", "[", "\\", "]", "^", "_", "U+0060", "a", "b", "c",
      "d", "e", "f", "g", "h", "i", "j", "k", "l", "m", "n", "o", "p", "q",
      "r", "s", "t", "u", "v", "w", "x", "y", "z", "{", "|", "}", "~"
    >>

\* what an invalid byte decodes to
Replacement == "U+FFFD"

\* Buffer.from(text, 'utf8')
Utf8Encode(s) ==
    [i \in 1..Len(s) |-> 31 + CHOOSE k \in 1..Len(Ascii) : Ascii[k] = s[i]]

\* buffer.toString('utf8')
Utf8Decode(bytes) ==
    [i \in 1..Len(bytes) |->
        IF bytes[i] \in 32..126 THEN Ascii[bytes[i] - 31] ELSE Replacement]

HexChars == <<"0", "1", "2", "3", "4", "5", "6", "7", "8", "9",
              "a", "b", "c", "d", "e", "f">>

HexCharsUpper == <<"0", "1", "2", "3", "4", "5", "6", "7", "8", "9",
                   "A", "B", "C", "D", "E", "F">>

IsHex(c) == \E d \in 1..16 : c \in {HexChars[d], HexCharsUpper[d]}

HexVal(c) == (CHOOSE d \in 1..16 : c \in {HexChars[d], HexCharsUpper[d]}) - 1

\* a variant of the hexadecimal encoding that writes a byte below 16 as
\* one digit
ToHexUnpadded(bytes) ==
    LET kept(p) == p % 2 = 0 \/ bytes[(p + 1) \div 2] >= 16
        places == SelectSeq(Places(bytes \o bytes), kept)
    IN  [k \in 1..Len(places) |->
            IF places[k] % 2 = 1 THEN HexChars[(bytes[(places[k] + 1) \div 2] \div 16) + 1]
            ELSE HexChars[(bytes[places[k] \div 2] % 16) + 1]]

\* buffer.toString('hex'): two digits a byte
ToHex(bytes) ==
    [i \in 1..(2 * Len(bytes)) |->
        IF i % 2 = 1 THEN HexChars[(bytes[(i + 1) \div 2] \div 16) + 1]
        ELSE HexChars[(bytes[i \div 2] % 16) + 1]]

\* Buffer.from(text, 'hex'): the bytes of the leading pairs of hexadecimal
\* digits; decoding ends at the first pair that is not one
FromHex(s) ==
    LET bad == {k \in 1..(Len(s) \div 2) : ~(IsHex(s[2 * k - 1]) /\ IsHex(s[2 * k]))}
        n == IF bad = {} THEN Len(s) \div 2
             ELSE (CHOOSE k \in bad : \A o \in bad : k <= o) - 1
    IN  [k \in 1..n |-> 16 * HexVal(s[2 * k - 1]) + HexVal(s[2 * k])]

\* a digest of the bytes at the places lo..hi of a sequence, which depends
\* on every byte and on its place
RECURSIVE DigestOf(_, _, _)
DigestOf(bytes, lo, hi) ==
    IF lo > hi THEN 0
    ELSE IF lo = hi THEN (bytes[lo] * ((lo % 5) + 1) + lo) % 256
    ELSE LET mid == (lo + hi) \div 2
         IN  (DigestOf(bytes, lo, mid) + DigestOf(bytes, mid + 1, hi)) % 256

Digest(bytes) == DigestOf(bytes, 1, Len(bytes))

Salt ==
    <<
      "s", "o", "l", "a", "n", "a", "-", "f", "o", "r", "g", "e", "-", "s",
      "a", "l", "t"
    >>

\* crypto.scryptSync(passphrase, 'solana-forge-salt', 32): the key is a
\* function of the passphrase and the salt
scryptSync(passphrase, salt) == Digest(Utf8Encode(passphrase) \o Utf8Encode(salt))

\* the key stream of the cipher at place i
KeyStream(key, iv, i) == (key + Digest(iv) * 7 + i * 13) % 256

\* cipher.update(...) + cipher.final(...)
CipherUpdate(key, iv, bytes) ==
    [i \in 1..Len(bytes) |-> (bytes[i] + KeyStream(key, iv, i)) % 256]

\* decipher.update(...)
DecipherUpdate(key, iv, bytes) ==
    [i \in 1..Len(bytes) |-> (bytes[i] + 256 - KeyStream(key, iv, i)) % 256]

\* cipher.getAuthTag(): it authenticates the ciphertext under the key and
\* the iv
getAuthTag(key, iv, ct) == <<(key * 5 + Digest(iv) + Digest(ct) + 1) % 256>>

\* the passphrases a controller is constructed with
Passphrases == {<<"p", "w">>, <<"P", "w", "2">>}

\* crypto.randomBytes(16): the initialization vectors drawn
Ivs == {<<0, 0>>, <<171, 9>>}

\* what a call that returns a value or throws has done
NotCalled == [st |-> "none", val |-> JsNull]

Returned(v) == [st |-> "value", val |-> v]

Thrown == [st |-> "throw", val |-> JsNull]

\* the string under the key k of the object x, or the empty sequence of
\* values where x has no string there (the last of equal keys counts)
StringProp(x, k) ==
    IF x.t # "object" THEN <<>>
    ELSE LET at == {i \in 1..Len(x.v) : x.v[i][1] = k}
         IN  IF at = {} THEN <<>>
             ELSE LET v == x.v[CHOOSE i \in at : \A j \in at : j <= i][2]
                  IN  IF v.t = "string" THEN <<v.v>> ELSE <<>>

\* JSON.stringify({ iv: ..., authTag: ..., data: ... })
Envelope(iv, authTag, encrypted) ==
    JsonStringify(JsObj(<< <<<<"i", "v">>, JsStr(ToHex(iv))>>,
                           <<<<"a", "u", "t", "h", "T", "a", "g">>, JsStr(ToHex(authTag))>>,
                           <<<<"d", "a", "t", "a">>, JsStr(ToHex(encrypted))>> >>))

\* encrypt(data), iv the bytes crypto.randomBytes returns
encrypt(data, iv) ==
    IF encryptionKey = <<>> THEN JsonStringify(data)
    ELSE The({ The({ The({ Envelope(iv, getAuthTag(key, iv, encrypted), encrypted) :
                           encrypted \in {CipherUpdate(key, iv, bytes)} }) :
                     bytes \in {Utf8Encode(text)} }) :
               key \in {scryptSync(encryptionKey, Salt)},
               text \in {JsonStringify(data)} })

\* the end of decrypt: decipher.update, decipher.final, which throws where
\* the tag does not authenticate the data, and JSON.parse
Decipher(key, iv, tag, ct) ==
    IF iv = <<>> \/ Len(tag) # 1 \/ getAuthTag(key, iv, ct) # tag THEN Thrown
    ELSE The({ IF decrypted.ok THEN Returned(decrypted.val) ELSE Thrown :
               decrypted \in {JsonParse(Utf8Decode(DecipherUpdate(key, iv, ct)))} })

\* decrypt with a passphrase, of the envelope that JSON.parse returned
DecryptEnvelope(envelope) ==
    The({ IF iv = <<>> \/ authTag = <<>> \/ data = <<>> THEN Thrown
          ELSE The({ Decipher(key, ivBytes, tag, ct) :
                     key \in {scryptSync(encryptionKey, Salt)},
                     ivBytes \in {FromHex(iv[1])},
                     tag \in {FromHex(authTag[1])},
                     ct \in {FromHex(data[1])} }) :
          iv \in {StringProp(envelope, <<"i", "v">>)},
          authTag \in {StringProp(envelope, <<"a", "u", "t", "h", "T", "a", "g">>)},
          data \in {StringProp(envelope, <<"d", "a", "t", "a">>)} })

\* decrypt(encryptedStr): the value it returns, or that it throws.  With a
\* passphrase it throws where the text is not JSON, where iv, authTag or data
\* is not a string (Buffer.from and decipher.update reject it), where the iv
\* is empty or the tag has not the length of one, where the tag does not
\* authenticate the data, and where the plaintext is not JSON.
decrypt(encryptedStr) ==
    The({ IF ~parsed.ok THEN Thrown
          ELSE IF encryptionKey = <<>> THEN Returned(parsed.val)
          ELSE DecryptEnvelope(parsed.val) :
          parsed \in {JsonParse(encryptedStr)} })

(***************************************************************************)
(* The record saveWallet stores for a discovery.                           *)
(***************************************************************************)
\* Keypair.generate(): the 64 bytes of the secret key of the k-th key pair,
\* here three of them
SecretKeyOf(k) == <<k, 255 - k, 7>>

\* new Date().toISOString() at the clock's millisecond now
IsoTime(now) == <<"2", "0", "2", "6", "-", "0", "1", "-", "0", "1", "T", "0", "0", ":", "0", "0", ":", "0", "0", ".", "0", "0">> \o NumToChars(now) \o <<"Z">>

Note ==
    <<
      "I", "m", "p", "o", "r", "t", " ", "s", "e", "c", "r", "e", "t", "K",
      "e", "y", " ", "a", "r", "r", "a", "y", " ", "i", "n", "t", "o", " ",
      "P", "h", "a", "n", "t", "o", "m", "/", "S", "o", "l", "f", "l", "a",
      "r", "e", " ", "o", "r", " ", "u", "s", "e", " ", "w", "i", "t", "h",
      " ", "@", "s", "o", "l", "a", "n", "a", "/", "w", "e", "b", "3", ".",
      "j", "s"
    >>

JsStrings(q) == [i \in 1..Len(q) |-> JsStr(q[i])]

JsNumbers(q) == [i \in 1..Len(q) |-> JsNum(q[i])]

\* this.currentCriteria = { ...criteria, suffixes: suffixResult.suffixes }
CriteriaValue(c) ==
    JsObj(<< <<<<"p", "r", "e", "f", "i", "x">>, JsStr(c.prefix)>>,
             <<<<"s", "u", "f", "f", "i", "x", "S", "t", "r", "i", "n", "g">>,
               JsStr(c.suffixString)>>,
             <<<<"m", "a", "t", "c", "h", "C", "a", "s", "e">>, JsBool(c.matchCase)>>,
             <<<<"w", "o", "r", "k", "e", "r", "s">>, JsNum(c.workers)>>,
             <<<<"b", "a", "t", "c", "h", "S", "i", "z", "e">>, JsNum(c.batchSize)>>,
             <<<<"s", "u", "f", "f", "i", "x", "e", "s">>,
               JsArr(JsStrings(suffixResultOf[c].suffixes))>> >>)

\* walletToSave of saveWallet(walletData), with this.currentCriteria the
\* criteria c
walletToSave(walletData, c, now) ==
    JsObj(<< <<<<"a", "d", "d", "r", "e", "s", "s">>, JsStr(walletData.address)>>,
             <<<<"s", "e", "c", "r", "e", "t", "K", "e", "y">>,
               JsArr(JsNumbers(SecretKeyOf(walletData.key)))>>,
             <<<<"s", "e", "c", "r", "e", "t", "K", "e", "y", "H", "e", "x">>,
               JsStr(ToHex(SecretKeyOf(walletData.key)))>>,
             <<<<"f", "o", "u", "n", "d", "A", "t">>, JsStr(IsoTime(now))>>,
             <<<<"s", "e", "a", "r", "c", "h", "C", "r", "i", "t", "e", "r", "i", "a">>,
               CriteriaValue(c)>>,
             <<<<"m", "a", "t", "c", "h", "e", "d", "S", "u", "f", "f", "i", "x">>,
               JsStr(walletData.matchedSuffix)>>,
             <<<<"m", "a", "t", "c", "h", "e", "d", "P", "r", "e", "f", "i", "x">>,
               JsStr(walletData.matchedPrefix)>>,
             <<<<"a", "t", "t", "e", "m", "p", "t", "s">>, JsNum(walletData.attempts)>>,
             <<<<"n", "o", "t", "e">>, JsStr(Note)>> >>)

(***************************************************************************)
(* The discoveries the store specifications save: a 'found' message of a   *)
(* worker mining for criteria that start() accepts.                        *)
(***************************************************************************)
\* the criteria start() spawns workers for
Accepted(c) ==
    /\ suffixResultOf[c].valid
    /\ c.prefix # <<>> => validateSuffix(c.prefix).valid
    /\ ~(c.prefix = <<>> /\ Len(suffixResultOf[c].suffixes) = 0)

\* walletData of the 'found' handler for the k-th key pair, found by a
\* worker of a run with criteria c after n attempts
WalletDataOf(k, c, n) ==
    LET r == checkCandidate([prefix |-> c.prefix,
                             suffixes |-> suffixResultOf[c].suffixes,
                             matchCase |-> c.matchCase], AddressOf(k))
    IN  [key |-> k, address |-> AddressOf(k), matchedSuffix |-> r.matchedSuffix,
         matchedPrefix |-> r.matchedPrefix, attempts |-> n, found |-> r.found]

Discoveries ==
    {d \in {[walletData |-> WalletDataOf(k, c, n), criteria |-> c] :
               k \in 1..(MaxKeys + 1),
               c \in {x \in StartCriteria : Accepted(x)},
               n \in {25000, MaxAttempts}} :
        /\ d.walletData.found
        /\ d.walletData.attempts % d.criteria.batchSize = 0}

(***************************************************************************)
(* The cipher specification: a controller constructed with a passphrase or *)
(* with none encrypts a record and decrypts what it got.                   *)
(***************************************************************************)
Encrypt(d, now, iv) ==
    /\ sealed = <<>>
    /\ plain' = walletToSave(d.walletData, d.criteria, now)
    /\ sealed' = encrypt(plain', iv)
    /\ UNCHANGED <<encryptionKey, load, loaded, opened, mvars, cvars, fvars, wvars,
                   dvars, lvars, calls, scn>>

Decrypt ==
    /\ sealed # <<>>
    /\ opened = NotCalled
    /\ opened' = decrypt(sealed)
    /\ UNCHANGED <<encryptionKey, load, loaded, plain, sealed, mvars, cvars, fvars,
                   wvars, dvars, lvars, calls, scn>>

CryptoInit ==
    /\ CtlInit
    /\ encryptionKey \in {<<>>} \cup Passphrases
    /\ scn = [cpus |-> 2, starts |-> 0, stops |-> 0, keys |-> 0, faults |-> 0,
              ioFaults |-> 0, attempts |-> MaxAttempts, speeds |-> <<2, 3>>]
    /\ mCriteria = Null
    /\ mPk = <<>>
    /\ mOut = <<>>
    /\ mAttempts = 0
    /\ mFeed = <<>>
    /\ mTime = TimeInit(DEFAULT_BATCH_SIZE)

CryptoNext ==
    \/ \E d \in Discoveries, now \in 1..MaxClock, iv \in Ivs : Encrypt(d, now, iv)
    \/ Decrypt

CryptoSpec == CryptoInit /\ [][CryptoNext]_vars

(***************************************************************************)
(* The store specification: controllers constructed over one data          *)
(* directory save discoveries and load them back; a stored record may be   *)
(* cut short, and a controller may hold another passphrase than the one a  *)
(* record was saved with.  Here a file of disk holds its text.             *)
(***************************************************************************)
\* file.startsWith('wallet_') && file.endsWith('.json')
IsRecordFile(name) == name[1] = "wallet"

\* no loadWallets() call is in progress
Idle == [pc |-> "idle", files |-> <<>>, idx |-> 0, wallets |-> <<>>]

\* the orders fs.readdir may list the names in
Listings(names) ==
    {f \in [1..Cardinality(names) -> names] :
        \A i, j \in 1..Cardinality(names) : f[i] = f[j] => i = j}

\* saveWallet(walletData) for the next key pair, every file-system call of
\* it succeeding: the record, then the keyfile
StoreSave(d, iv) ==
    /\ load = Idle
    /\ calls.keys < scn.keys
    /\ d.walletData.key = calls.keys + 1
    /\ \E now \in {clock, clock + 1} :
          /\ now >= 1
          /\ now <= MaxClock
          /\ clock' = now
          /\ disk' = WriteFile(
                        WriteFile(disk, RecordFile(now),
                                  encrypt(walletToSave(d.walletData, d.criteria, now), iv)),
                        KeyFile(d.walletData.address),
                        JsonStringify(JsArr(JsNumbers(SecretKeyOf(d.walletData.key)))))
    /\ calls' = [calls EXCEPT !.keys = @ + 1]
    /\ UNCHANGED <<svars, mvars, cvars, fvars, wvars, lvars, scn>>

\* a stored record loses its second half (a write cut short, a damaged disk)
StoreDamage(name) ==
    /\ load = Idle
    /\ name \in DOMAIN disk
    /\ IsRecordFile(name)
    /\ calls.ioFaults < scn.ioFaults
    /\ calls' = [calls EXCEPT !.ioFaults = @ + 1]
    /\ disk' = [disk EXCEPT ![name] = SubSeq(@, 1, Len(@) \div 2)]
    /\ UNCHANGED <<svars, mvars, cvars, fvars, wvars, clock, lvars, scn>>

\* new VanityForge({ dataPath, encryptionKey }) over the same directory
Construct(passphrase) ==
    /\ load = Idle
    /\ encryptionKey # passphrase
    /\ encryptionKey' = passphrase
    /\ loaded' = [st |-> "none", wallets |-> <<>>, failed |-> <<>>]
    /\ UNCHANGED <<load, plain, sealed, opened, mvars, cvars, fvars, wvars, dvars,
                   lvars, calls, scn>>

\* loadWallets(): up to "await fs.readdir(this.dataPath)"
LoadWallets ==
    /\ load = Idle
    /\ load' = [Idle EXCEPT !.pc = "readdir"]
    /\ loaded' = [st |-> "none", wallets |-> <<>>, failed |-> <<>>]
    /\ UNCHANGED <<encryptionKey, plain, sealed, opened, mvars, cvars, fvars, wvars,
                   dvars, lvars, calls, scn>>

\* the for loop of loadWallets from after the file at place i: it goes on
\* to the next name that is a record's and awaits fs.readFile, or ends and
\* loadWallets returns wallets
LoadAdvance(files, i, wallets) ==
    LET rest == {j \in (i + 1)..Len(files) : IsRecordFile(files[j])}
    IN  IF rest = {}
        THEN /\ load' = Idle
             /\ loaded' = [st |-> "returned", wallets |-> wallets, failed |-> <<>>]
        ELSE /\ load' = [pc |-> "read", files |-> files,
                         idx |-> CHOOSE j \in rest : \A o \in rest : j <= o,
                         wallets |-> wallets]
             /\ UNCHANGED loaded

\* catch (e) { return []; }, the exception raised at the file name (which
\* loaded records beside the list returned)
LoadCatch(name) ==
    /\ load' = Idle
    /\ loaded' = [st |-> "returned", wallets |-> <<>>, failed |-> <<name>>]

\* fs.readdir resolves (a directory that was never made has no names, and
\* the catch returns the same empty list)
LoadReaddir ==
    /\ load.pc = "readdir"
    /\ \E files \in Listings(DOMAIN disk) : LoadAdvance(files, 0, <<>>)
    /\ UNCHANGED <<encryptionKey, plain, sealed, opened, mvars, cvars, fvars, wvars,
                   dvars, lvars, calls, scn>>

\* fs.readFile settles; ok = FALSE: it rejects.  Then
\* wallets.push(this.decrypt(content)) and the loop goes on.
LoadRead(ok) ==
    /\ load.pc = "read"
    /\ IF ok
       THEN /\ \E r \in {decrypt(disk[load.files[load.idx]])} :
                 IF r.st = "throw" THEN LoadCatch(load.files[load.idx])
                 ELSE LoadAdvance(load.files, load.idx, Append(load.wallets, r.val))
            /\ UNCHANGED calls
       ELSE /\ calls.ioFaults < scn.ioFaults
            /\ calls' = [calls EXCEPT !.ioFaults = @ + 1]
            /\ LoadCatch(load.files[load.idx])
    /\ UNCHANGED <<encryptionKey, plain, sealed, opened, mvars, cvars, fvars, wvars,
                   dvars, lvars, scn>>

StoreInit ==
    /\ CtlInit
    /\ encryptionKey \in {<<>>} \cup Passphrases
    /\ scn = [cpus |-> 2, starts |-> 0, stops |-> 0, keys |-> MaxKeys, faults |-> 0,
              ioFaults |-> MaxIoFaults, attempts |-> MaxAttempts,
              speeds |-> <<2, 3>>]
    /\ mCriteria = Null
    /\ mPk = <<>>
    /\ mOut = <<>>
    /\ mAttempts = 0
    /\ mFeed = <<>>
    /\ mTime = TimeInit(DEFAULT_BATCH_SIZE)

\* the discoveries of one run, a prefix search, each at the end of a full
\* pass of its worker
RunDiscoveries ==
    {d \in Discoveries :
        d.criteria.prefix # <<>> /\ d.walletData.attempts = MaxAttempts}

StoreNext ==
    \/ \E d \in RunDiscoveries, iv \in Ivs : StoreSave(d, iv)
    \/ \E name \in DOMAIN disk : StoreDamage(name)
    \/ \E passphrase \in {<<>>} \cup Passphrases : Construct(passphrase)
    \/ LoadWallets
    \/ LoadReaddir
    \/ \E ok \in BOOLEAN : LoadRead(ok)

StoreSpec == StoreInit /\ [][StoreNext]_vars

(***************************************************************************)
(* The matcher specification: one worker, its criteria drawn from what     *)
(* start() hands to a worker (validated Base58 patterns, suffixes trimmed  *)
(* and non-empty, at least one target), fed candidate addresses.           *)
(***************************************************************************)
\* characters of the candidate addresses and of the patterns: a letter in
\* both cases and a digit, which toUpperCase leaves alone
AddrChars == {"a", "A", "2"}

Addresses == UNION {[1..n -> AddrChars] : n \in 1..MaxAddrLen}

Prefixes == {<<>>, <<"a">>, <<"A">>, <<"2">>, <<"A", "a">>, <<"a", "2">>}

SuffixLists ==
    {<<>>, << <<"a">> >>, << <<"A">> >>, << <<"2">> >>, << <<"a", "A">> >>,
     << <<"A">>, <<"a", "A">> >>, << <<"a", "A">>, <<"A">> >>,
     << <<"2">>, <<"a">> >>, << <<"2", "a">>, <<"A", "A">> >>}

\* the criteria start() can hand to a worker: Base58 patterns, no empty
\* suffix, at least one target
WorkerCriteria ==
    {c \in [prefix : Prefixes, suffixes : SuffixLists, matchCase : BOOLEAN] :
        /\ c.prefix # <<>> \/ c.suffixes # <<>>
        /\ validateSuffix(c.prefix).valid
        /\ \A j \in 1..Len(c.suffixes) :
              c.suffixes[j] # <<>> /\ validateSuffix(c.suffixes[j]).valid}

MatchInit ==
    /\ mCriteria \in WorkerCriteria
    /\ mPk = <<>>
    /\ mOut = <<>>
    /\ mAttempts = 0
    /\ mFeed = <<>>
    /\ mTime = TimeInit(DEFAULT_BATCH_SIZE)
    /\ CtlInit
    /\ encryptionKey = <<>>
    /\ scn = [cpus |-> 2, starts |-> 0, stops |-> 0, keys |-> 0, faults |-> 0,
              ioFaults |-> 0, attempts |-> MaxMineAttempts, speeds |-> <<2, 3>>]

\* a variant of the iteration that posts the first match only
MineAttemptFirstOnly(pk) ==
    /\ mAttempts < scn.attempts
    /\ mAttempts' = mAttempts + 1
    /\ mPk' = pk
    /\ LET r == checkCandidate(mCriteria, pk)
       IN  mOut' = IF r.found /\ mOut = <<>>
                   THEN Append(mOut, [type |-> "found", address |-> pk,
                                      matchedSuffix |-> r.matchedSuffix,
                                      matchedPrefix |-> r.matchedPrefix,
                                      attempts |-> mAttempts'])
                   ELSE mOut
    /\ UNCHANGED <<mCriteria, mFeed, mTime, svars, cvars, fvars, wvars, dvars, lvars, calls,
                   scn>>

\* one iteration of the inner loop on candidate pk
MineAttempt(pk) ==
    /\ mAttempts < scn.attempts
    /\ mAttempts' = mAttempts + 1
    /\ mPk' = pk
    /\ LET r == checkCandidate(mCriteria, pk)
       IN  mOut' = IF r.found
                   THEN Append(mOut, [type |-> "found", address |-> pk,
                                      matchedSuffix |-> r.matchedSuffix,
                                      matchedPrefix |-> r.matchedPrefix,
                                      attempts |-> mAttempts'])
                   ELSE mOut
    /\ UNCHANGED <<mCriteria, mFeed, mTime, svars, cvars, fvars, wvars, dvars, lvars, calls,
                   scn>>

\* the controller takes the message off the port
MatchDeliver ==
    /\ mOut # <<>>
    /\ mOut' = Tail(mOut)
    /\ UNCHANGED <<mCriteria, mPk, mAttempts, mFeed, mTime, svars, cvars, fvars, wvars, dvars,
                   lvars, calls, scn>>

\* the worker tests any candidate; the controller takes each message off
\* the port before the next attempt
MatchNext ==
    \/ \E pk \in Addresses : mOut = <<>> /\ MineAttempt(pk)
    \/ MatchDeliver

MatchSpec == MatchInit /\ [][MatchNext]_vars

(***************************************************************************)
(* The fixed-sequence specification: one worker whose generator produces a *)
(* fixed sequence of candidate addresses, its 'found' messages queued on   *)
(* the port in the order they were posted.                                 *)
(***************************************************************************)
FeedAddresses ==
    { <<"a", "b", "x", "y">>, <<"z", "z", "q", "r">>, <<"a", "b", "z", "z">>,
      <<"A", "B", "X", "Y">>, <<"a", "b", "q", "r">> }

FeedCriteria ==
    { [prefix |-> <<"A", "B">>, suffixes |-> << <<"X", "Y">>, <<"Z", "Z">> >>,
       matchCase |-> mc] : mc \in BOOLEAN }
    \cup { [prefix |-> <<>>, suffixes |-> << <<"z", "z">> >>, matchCase |-> FALSE] }

FeedInit ==
    /\ mCriteria \in FeedCriteria
    /\ mFeed \in [1..MaxFeed -> FeedAddresses]
    /\ mTime = TimeInit(DEFAULT_BATCH_SIZE)
    /\ mPk = <<>>
    /\ mOut = <<>>
    /\ mAttempts = 0
    /\ CtlInit
    /\ encryptionKey = <<>>
    /\ scn = [cpus |-> 2, starts |-> 0, stops |-> 0, keys |-> 0, faults |-> 0,
              ioFaults |-> 0, attempts |-> MaxFeed, speeds |-> <<2, 3>>]

\* const kp = Keypair.generate() with the generator of the fixed sequence
FeedNext == MineAttempt(mFeed[mAttempts + 1])

FeedSpec == FeedInit /\ [][FeedNext]_vars

(***************************************************************************)
(* The properties.                                                         *)
(***************************************************************************)
\* the case rule of the specification: without matchCase, strings are
\* compared in a single case
ToLowerChar(c) ==
    IF \E i \in 1..26 : Upper[i] = c
    THEN Lower[CHOOSE i \in 1..26 : Upper[i] = c]
    ELSE c

CaseRule(matchCase, str) ==
    IF matchCase THEN str ELSE [i \in 1..Len(str) |-> ToLowerChar(str[i])]

IsPrefixOf(p, str) == \E n \in 0..Len(str) : str = p \o SubSeq(str, n + 1, Len(str))

IsSuffixOf(p, str) == \E n \in 0..Len(str) : str = SubSeq(str, 1, n) \o p

Matches(A, C) ==
    /\ \/ C.prefix = <<>>
       \/ IsPrefixOf(CaseRule(C.matchCase, C.prefix), CaseRule(C.matchCase, A))
    /\ \/ C.suffixes = <<>>
       \/ \E j \in 1..Len(C.suffixes) :
             IsSuffixOf(CaseRule(C.matchCase, C.suffixes[j]), CaseRule(C.matchCase, A))

\* C1: for every candidate address and every criteria, the attempt on the
\* address posts a 'found' message for it if and only if the address starts
\* with the prefix (or there is none) and ends with one of the suffixes (or
\* there are none), under the case rule.
C1_MatchIff ==
    [][\A pk \in Addresses :
          MineAttempt(pk) =>
             ((mOut' # <<>> /\ mOut'[1].type = "found" /\ mOut'[1].address = pk)
                <=> Matches(pk, mCriteria))]_vars

\* a case-insensitive match on a prefix and a suffix that both differ in
\* case from the address
C1_Witness ==
    /\ mOut # <<>>
    /\ ~mCriteria.matchCase
    /\ mCriteria.prefix = <<"a">>
    /\ mCriteria.suffixes = << <<"2">>, <<"a">> >>
    /\ mPk = <<"A", "2", "A">>

(***************************************************************************)
(* Properties of the controller specification.                             *)
(***************************************************************************)
\* the worker is in its loop: generating and testing key pairs, or between
\* two calls of mineLoop
Looping(w) == w.st \in {"mining", "yield"}

Last(q) == q[Len(q)]

\* the step posts a 'found' message of worker u
PostsFound(u) ==
    /\ Len(out'[u]) > Len(out[u])
    /\ \E i \in (Len(out[u]) + 1)..Len(out'[u]) : out'[u][i].type = "found"

\* C2: a match never ends a worker's loop.  A step in which a worker posts
\* 'found' leaves it in its loop, still set to run and with its attempt
\* counter advanced; and a worker leaves its loop only in a step that posts
\* no match and in which it handles a stop signal, its thread is terminated
\* or the loop itself fails.
C2_MatchKeepsWorker ==
    [][\A u \in 1..Len(wk) :
          /\ PostsFound(u) =>
                /\ Looping(wk[u]) /\ Looping(wk'[u])
                /\ wk'[u].running = wk[u].running
                /\ wk'[u].localAttempts > wk[u].localAttempts
          /\ (Looping(wk[u]) /\ ~Looping(wk'[u])) =>
                /\ ~PostsFound(u)
                /\ \/ ~wk[u].running
                   \/ wk[u].stopRequested
                   \/ calls'.faults > calls.faults]_vars

\* the only worker of a run has matched twice, both matches are in the
\* discovery list, and it is in its loop, testing key pairs
C2_Witness ==
    /\ Len(wk) = 1
    /\ wk[1].st = "mining"
    /\ wk[1].running
    /\ Len(foundWallets) = 2
    /\ \A i \in 1..2 : foundWallets[i].run = wk[1].run
    /\ wk[1].localAttempts >= foundWallets[2].attempts

\* C3: durability before notification.  this.onFound is called for a
\* discovery only in the step that ends its persistence (the 'found' handler
\* leaves its await of saveWallet), and when it is called with a wallet whose
\* savedPath is not null, the file of that name holds the record of that
\* wallet.
C3_DurableBeforeNotify ==
    [][Len(onFoundLog') > Len(onFoundLog) =>
          LET w == Last(onFoundLog').wallet
          IN  /\ \E fr \in saveFrames : fr.key = w.key /\ fr \notin saveFrames'
              /\ \A fr \in saveFrames' : fr.key # w.key
              /\ w.savedPath # Null =>
                    /\ w.savedPath \in DOMAIN disk'
                    /\ disk'[w.savedPath].key = w.key
                    /\ disk'[w.savedPath].address = w.address]_vars

\* C4: when a file-system call of saveWallet fails, the discovery is
\* appended to the discovery list with savedPath null, this.onFound is
\* called with it, and no worker, nor the pool, nor isRunning changes.
C4_UnsavedStillReported ==
    [][calls'.ioFaults > calls.ioFaults =>
          \E fr \in saveFrames :
             /\ fr \notin saveFrames'
             /\ Len(foundWallets') = Len(foundWallets) + 1
             /\ SubSeq(foundWallets', 1, Len(foundWallets)) = foundWallets
             /\ Last(foundWallets').key = fr.key
             /\ Last(foundWallets').address = fr.address
             /\ Last(foundWallets').savedPath = Null
             /\ telemetry'.foundCount = Len(foundWallets')
             /\ Len(onFoundLog') = Len(onFoundLog) + 1
             /\ Last(onFoundLog').wallet = Last(foundWallets')
             /\ wk' = wk
             /\ arrays' = arrays /\ workersRef' = workersRef
             /\ isRunning' = isRunning
             /\ stopFrames' = stopFrames]_vars

\* a discovery whose persistence failed is in the discovery list, unsaved,
\* was reported, and the worker that made it has gone on to further attempts
C4_Witness ==
    /\ calls.ioFaults = 1
    /\ \E i \in 1..Len(foundWallets), u \in 1..Len(wk) :
          /\ foundWallets[i].savedPath = Null
          /\ \E j \in 1..Len(onFoundLog) : onFoundLog[j].wallet = foundWallets[i]
          /\ Len(arrays[workersRef]) = 1
          /\ u \in Range(arrays[workersRef])
          /\ Looping(wk[u])
          /\ wk[u].run = foundWallets[i].run
          /\ wk[u].localAttempts > foundWallets[i].attempts

\* criteria that are invalid: a character outside Base58 in a suffix (commas
\* separate the suffixes, blanks around them do not count) or in the prefix,
\* or neither a prefix nor a suffix
InvalidCriteria(c) ==
    \/ \E i \in 1..Len(c.suffixString) :
          c.suffixString[i] \notin BASE58_ALPHABET \cup {",", " "}
    \/ \E i \in 1..Len(c.prefix) : c.prefix[i] \notin BASE58_ALPHABET
    \/ /\ c.prefix = <<>>
       /\ \A i \in 1..Len(c.suffixString) : c.suffixString[i] \in {",", " "}

\* the step in which start(c) runs its validation: the call itself when the
\* controller is not running, the continuation of its "await this.stop()"
\* otherwise
StartValidates(c) ==
    \/ ~isRunning /\ Start(c)
    \/ /\ micro # <<>>
       /\ Head(micro).kind = "start"
       /\ \E sf \in startFrames : sf.sid = Head(micro).id /\ sf.criteria = c
       /\ RunMicrotask

\* C5: start with invalid criteria returns false, calls this.onError once
\* and spawns no worker: no thread is created and the pool is as before.
C5_InvalidStartRejected ==
    [][\A c \in StartCriteria :
          (InvalidCriteria(c) /\ StartValidates(c)) =>
             /\ Len(startLog') = Len(startLog) + 1
             /\ Last(startLog').ret = FALSE
             /\ Len(onErrorLog') = Len(onErrorLog) + 1
             /\ wk' = wk
             /\ arrays' = arrays /\ workersRef' = workersRef
             /\ isRunning' = isRunning]_vars

\* start calls rejected for each of the three reasons, no thread ever created
C5_Witness ==
    /\ wk = <<>>
    /\ Len(startLog) = 3
    /\ \A i \in 1..3 : ~startLog[i].ret
    /\ {onErrorLog[i].kind : i \in 1..Len(onErrorLog)} = {"suffix", "prefix", "notarget"}
    /\ \E i \in 1..Len(onErrorLog) :
          onErrorLog[i].kind = "suffix" /\ onErrorLog[i].invalidChar = "0"

\* C6: the controller is never Running (isRunning) while a stop() call is
\* still in progress.
C6_NeverRunningWhileStopping == ~(isRunning /\ stopFrames # {})

\* the stop() calls a behaviour can make
MaxStopCalls == MaxStarts + 1 + MaxStops

\* the stop() call numbered id is in progress
Stopping(id) == \E f \in stopFrames : f.id = id

\* C7: every stop() call completes; its stop message reaches every worker
\* of the pool that is in its loop; and in the step in which it completes
\* every worker that was in the pool when it was called has exited, the pool
\* is empty and activeWorkers is 0.
C7_StopCompletes ==
    /\ [][/\ \A f \in stopFrames' :
                (~\E g \in stopFrames : g.id = f.id) =>
                   /\ f.pool = Range(arrays[workersRef])
                   /\ \A u \in f.pool :
                         /\ Looping(wk[u]) => wk'[u].stopMsg
                         /\ wk[u].st = "idle" => ~wk'[u].running
          /\ \A f \in stopFrames :
                (~\E g \in stopFrames' : g.id = f.id) =>
                   /\ \A u \in f.pool : wk'[u].st = "exited"
                   /\ arrays'[workersRef'] = <<>>
                   /\ telemetry'.activeWorkers = 0]_vars
    /\ \A id \in 1..MaxStopCalls : Stopping(id) ~> ~Stopping(id)

\* a run of two workers was stopped: the stop() has completed, both threads
\* have exited, the pool is empty and activeWorkers is 0
C7_Witness ==
    /\ calls.stopCalls >= 1
    /\ stopFrames = {}
    /\ Len(wk) = 2
    /\ \A u \in 1..2 : wk[u].st = "exited"
    /\ arrays[workersRef] = <<>>
    /\ telemetry.activeWorkers = 0

\* C8: stop is idempotent.  Once stop() has been called twice in a row (no
\* start() called or running its body in between or since) and the calls
\* have completed, activeWorkers is 0 and the pool is empty, whether or not
\* the controller was ever started.
C8_StopIdempotent ==
    (calls.row = 2 /\ stopFrames = {}) =>
       /\ telemetry.activeWorkers = 0
       /\ arrays[workersRef] = <<>>

\* a started controller on which stop() was called twice in a row, both
\* calls completed
C8_Witness ==
    /\ calls.row = 2
    /\ stopFrames = {}
    /\ Len(wk) >= 1
    /\ ~isRunning

\* C9: start() calls alone never merge runs: when no stop() was called, the
\* pool never holds two workers in their loops that search for different
\* criteria.
C9_NoMergedRuns ==
    calls.stops = 0 =>
       \A u, v \in Range(arrays[workersRef]) :
          (Looping(wk[u]) /\ Looping(wk[v])) => wk[u].criteria = wk[v].criteria

\* C10: the discovery list and foundCount hold only matches of the workers
\* of the current run (the run of the last successful start), when runs are
\* replaced by start() calls alone (stop() is never called).
C10_OnlyCurrentRun ==
    calls.stops = 0 =>
       /\ \A i \in 1..Len(foundWallets) : foundWallets[i].run = calls.run
       /\ telemetry.foundCount = Len(foundWallets)

\* the sum of the attempts of all entries of workerStats
TrackedAttempts ==
    LET stats == telemetry.workerStats
        sum[S \in SUBSET DOMAIN stats] ==
            IF S = {} THEN 0
            ELSE LET i == CHOOSE x \in S : \A y \in S : x <= y
                 IN  stats[i].attempts + sum[S \ {i}]
    IN  sum[DOMAIN stats]

\* C12: telemetry additivity.  In every state between two tasks of the
\* controller (after start, after each progress event, after stop),
\* telemetry.totalAttempts is the sum of the attempts of all entries of
\* workerStats.
C12_TelemetryAdditive == telemetry.totalAttempts = TrackedAttempts

\* both workers of a run have reported progress and the total is their sum
C12_Witness ==
    /\ DOMAIN telemetry.workerStats = {0, 1}
    /\ telemetry.workerStats[0].attempts > 0
    /\ telemetry.workerStats[1].attempts > 0
    /\ telemetry.totalAttempts =
          telemetry.workerStats[0].attempts + telemetry.workerStats[1].attempts

(***************************************************************************)
(* Properties of the worker-count specification.                           *)
(***************************************************************************)
Clamp(r, lo, hi) == IF r < lo THEN lo ELSE IF r > hi THEN hi ELSE r

\* C11: for every requested worker count r, a successful start spawns
\* clamp(r, 1, M) workers, M = max(1, CPUs - 1): that many threads are
\* created and that many are in the pool.
C11_WorkerCountClamped ==
    [][\A c \in CountCriteria :
          Start(c) =>
             LET M == IF scn.cpus - 1 >= 1 THEN scn.cpus - 1 ELSE 1
             IN  /\ Last(startLog').ret
                 /\ Len(wk') - Len(wk) = Clamp(c.workers, 1, M)
                 /\ Len(arrays'[workersRef']) = Clamp(c.workers, 1, M)]_vars

\* C14: under the cipher specification, with a passphrase or with none, what
\* decrypt() makes of the string encrypt() returned for a record is that
\* record: it returns, and the value it returns equals the record.
C14_RoundTrip == opened.st # "none" => opened.st = "value" /\ opened.val = plain

\* a record was encrypted under a passphrase into an envelope, which is not
\* its JSON text, and decrypted back to itself
C14_Witness ==
    /\ encryptionKey \in Passphrases
    /\ sealed # <<>>
    /\ sealed # JsonStringify(plain)
    /\ opened = Returned(plain)
    /\ plain.t = "object"

\* what the controller's decrypt makes of the stored record name
Readable(name) == decrypt(disk[name]).st = "value"

\* C13: when loadWallets returns, every stored record that the controller
\* can decrypt, other than one whose file could not be read, is in the list
\* it returns, whatever the other records are: a record that is corrupt or
\* cannot be decrypted is skipped alone.
\* (No file changes while a load is in progress.)
C13_LoadSkipsCorruptOnly ==
    [][load # Idle /\ load' = Idle =>
          \A name \in DOMAIN disk :
              IsRecordFile(name) /\ Readable(name) /\ <<name>> # loaded'.failed =>
                  \E i \in 1..Len(loaded'.wallets) :
                      loaded'.wallets[i] = decrypt(disk[name]).val]_vars

\* C15: a file written for one discovery, its record or its keyfile, is
\* never written again for another discovery: no step replaces the content
\* of a stored file by that of a different key pair.
C15_FilesNeverOverwritten ==
    [][\A name \in DOMAIN disk : disk'[name].key = disk[name].key]_vars

\* the onError calls made for worker faults
WorkerErrorsReported ==
    Cardinality({i \in 1..Len(onErrorLog) : onErrorLog[i].kind = "worker"})

\* a fault the controller has still to hear of: a thread that died and whose
\* events are due, or an 'error' message not yet received
FaultPending ==
    \E u \in 1..Len(wk) :
        \/ wk[u].st = "crashed"
        \/ \E k \in 1..Len(out[u]) : out[u][k].type = "error"

\* C16: every fault raised inside a worker's mining loop, before or after
\* its first yield, is reported through onError: once the controller has
\* handled all that a fault produces, onError has been called once for
\* each fault.
C16_EveryFaultReported == ~FaultPending => WorkerErrorsReported = calls.faults

\* the workers start() spawned for the current run
Spawned == {u \in 1..Len(wk) : wk[u].run = calls.run}

\* C17: during a run that no stop() has touched and in which no worker has
\* reported a caught fault, telemetry.activeWorkers is the number of spawned
\* workers whose thread has not ended: a worker that dies takes the count
\* down by exactly one, and nothing else moves it.
C17_ActiveWorkersExact ==
    isRunning /\ calls.stopCalls = 0 /\ WorkerErrorsReported = 0 =>
        telemetry.activeWorkers = Cardinality({u \in Spawned : wk[u].st # "exited"})

\* the 'found' messages posted and not yet received by the controller
FoundInFlight ==
    LET n[u \in 0..Len(out)] ==
            IF u = 0 THEN 0
            ELSE n[u - 1] + Cardinality({k \in 1..Len(out[u]) : out[u][k].type = "found"})
    IN  n[Len(out)]

\* C18: each match event the controller receives yields exactly one entry
\* of the discovery list and exactly one onFound call, whatever the other
\* discoveries are.  Every match posted is in flight, in its handler, or was
\* reported once; a step that reports appends exactly the reported wallet
\* as the one new entry; and a step changes no entry of the list (it keeps
\* the entries, or empties the list as start() and clearFoundWallets() do).
C18_OneEntryPerMatch ==
    /\ [](/\ calls.keys = FoundInFlight + Cardinality(saveFrames) + Len(onFoundLog)
          /\ \A i, j \in 1..Len(onFoundLog) :
                onFoundLog[i].wallet.key = onFoundLog[j].wallet.key => i = j)
    /\ [][/\ Len(onFoundLog') > Len(onFoundLog) =>
                /\ Len(onFoundLog') = Len(onFoundLog) + 1
                /\ foundWallets' = Append(foundWallets, Last(onFoundLog').wallet)
          /\ foundWallets' # foundWallets =>
                \/ foundWallets' = <<>>
                \/ /\ Len(onFoundLog') > Len(onFoundLog)
                   /\ SubSeq(foundWallets', 1, Len(foundWallets)) = foundWallets]_vars

\* two matches of the same pattern in the same run, both received, each with
\* its own entry and its own onFound call
C18_Witness ==
    /\ Len(foundWallets) = 2
    /\ foundWallets[1].key # foundWallets[2].key
    /\ foundWallets[1].matchedPrefix = foundWallets[2].matchedPrefix
    /\ foundWallets[1].matchedSuffix = foundWallets[2].matchedSuffix
    /\ foundWallets[1].run = foundWallets[2].run
    /\ Len(onFoundLog) = 2
    /\ \A i \in 1..2 : onFoundLog[i].wallet = foundWallets[i]

\* C19: discoveries are ordered by arrival: when the handler of a 'found'
\* message reports its wallet (the push and onFound), no 'found' message of
\* the same run that the controller received earlier is still to be
\* reported.
C19_ArrivalOrder ==
    [][Len(onFoundLog') > Len(onFoundLog) =>
          \A fr \in saveFrames \ saveFrames', later \in saveFrames' :
              later.run = fr.run => later.seq > fr.seq]_vars

\* C20: for each match the controller first ends the persistence write,
\* then appends to the discovery list, then calls onFound.  A step that
\* calls onFound is the one in which the handler's saveWallet ends (with
\* both files written when it returns a path), it appends one entry, and
\* onFound gets the length of the list after that append and the wallet
\* that is then its last element.
C20_PersistAppendNotify ==
    [][Len(onFoundLog') > Len(onFoundLog) =>
          LET e == Last(onFoundLog')
          IN  /\ \E fr \in saveFrames \ saveFrames' :
                    /\ fr.key = e.wallet.key
                    /\ e.wallet.savedPath # Null =>
                          /\ fr.pc = "keyfile"
                          /\ e.wallet.savedPath = fr.path
                          /\ fr.path \in DOMAIN disk
                          /\ KeyFile(fr.address) \in DOMAIN disk'
              /\ Len(foundWallets') = Len(foundWallets) + 1
              /\ e.totalFound = Len(foundWallets')
              /\ e.wallet = Last(foundWallets')]_vars

\* the second discovery of a run was saved, appended and reported with a
\* running total of 2
C20_Witness ==
    /\ Len(foundWallets) = 2
    /\ Len(onFoundLog) = 2
    /\ Last(onFoundLog).totalFound = 2
    /\ Last(onFoundLog).wallet = foundWallets[2]
    /\ foundWallets[2].savedPath # Null
    /\ foundWallets[2].savedPath \in DOMAIN disk

\* a step that empties a discovery list that held entries, within a run: a
\* call of clearFoundWallets() (start(), which also empties it, begins a run)
ClearsDiscoveries ==
    /\ foundWallets # <<>>
    /\ foundWallets' = <<>>
    /\ calls'.run = calls.run

\* C21: clearFoundWallets() empties the discovery list, sets foundCount to 0
\* and changes nothing else: the saved files, the worker pool, the threads
\* and their messages, the running state, the calls in progress, and the
\* attempt and speed telemetry are as they were.
C21_ClearOnlyForgets ==
    [][ClearsDiscoveries =>
          /\ telemetry' = [telemetry EXCEPT !.foundCount = 0]
          /\ telemetry'.foundCount = 0
          /\ UNCHANGED <<disk, clock, isRunning, workersRef, arrays, wk, out,
                         currentCriteria, stopFrames, startFrames, saveFrames,
                         micro, onFoundLog, onErrorLog, startLog, svars>>]_vars

\* the list was cleared during a run that goes on: the discovery the
\* controller reported in this run is no longer listed, its files are
\* stored, the workers are in the pool and the attempts counted
C21_Witness ==
    /\ foundWallets = <<>>
    /\ telemetry.foundCount = 0
    /\ onFoundLog # <<>>
    /\ Last(onFoundLog).wallet.run = calls.run
    /\ Last(onFoundLog).wallet.savedPath # Null
    /\ Last(onFoundLog).wallet.savedPath \in DOMAIN disk
    /\ isRunning
    /\ arrays[workersRef] # <<>>
    /\ telemetry.totalAttempts > 0
    /\ telemetry.speedHistory # <<>>

(***************************************************************************)
(* Further properties of the matcher specification.                        *)
(***************************************************************************)
\* the criteria with the prefix and every suffix in a single case, to be
\* compared exactly
NormalizedCriteria(C) ==
    [prefix |-> CaseRule(FALSE, C.prefix),
     suffixes |-> [j \in 1..Len(C.suffixes) |-> CaseRule(FALSE, C.suffixes[j])],
     matchCase |-> TRUE]

\* A starts with the prefix and ends with one of the suffixes, character by
\* character
ExactMatches(A, C) ==
    /\ C.prefix = <<>> \/ IsPrefixOf(C.prefix, A)
    /\ C.suffixes = <<>> \/ \E j \in 1..Len(C.suffixes) : IsSuffixOf(C.suffixes[j], A)

\* C22: without matchCase, the attempt on an address posts 'found' exactly
\* when the worker's exact-case test accepts the address in a single case
\* against the criteria with the prefix and every suffix in that case; with
\* matchCase the comparison is exact, so a pattern that differs from the
\* address in letter case only does not match.
C22_CaseInsensitiveIsNormalizedExact ==
    [][\A pk \in Addresses :
          MineAttempt(pk) =>
             LET posted == mOut' # <<>> /\ mOut'[1].type = "found"
             IN  IF mCriteria.matchCase
                 THEN posted <=> ExactMatches(pk, mCriteria)
                 ELSE posted <=>
                         checkCandidate(NormalizedCriteria(mCriteria),
                                        CaseRule(FALSE, pk)).found]_vars

\* a case-insensitive match in which the prefix and the suffix are of mixed
\* case and the address differs from both in case
C22_Witness ==
    /\ mOut # <<>>
    /\ ~mCriteria.matchCase
    /\ mCriteria.prefix = <<"A", "a">>
    /\ mCriteria.suffixes = << <<"2", "a">>, <<"A", "A">> >>
    /\ mPk = <<"a", "A", "a">>

\* the configured suffixes the address ends with, under the case rule
SuffixHits(A, C) ==
    {j \in 1..Len(C.suffixes) :
        IsSuffixOf(CaseRule(C.matchCase, C.suffixes[j]), CaseRule(C.matchCase, A))}

\* C23: the matchedSuffix of a 'found' message is the first configured
\* suffix, in insertion order, that the address ends with, whether or not a
\* later one is longer (as the worker compares it: in upper case without
\* matchCase); it is the empty string when no suffixes are configured.
C23_FirstSuffixReported ==
    [][\A pk \in Addresses :
          MineAttempt(pk) /\ mOut' # <<>> =>
             IF mCriteria.suffixes = <<>>
             THEN mOut'[1].matchedSuffix = <<>>
             ELSE LET hits  == SuffixHits(pk, mCriteria)
                      first == CHOOSE j \in hits : \A h \in hits : j <= h
                  IN  /\ hits # {}
                      /\ mOut'[1].matchedSuffix =
                            IF mCriteria.matchCase THEN mCriteria.suffixes[first]
                            ELSE ToUpperCase(mCriteria.suffixes[first])]_vars

\* an address that ends with both configured suffixes, the second of them
\* the longer one, was reported with the first
C23_Witness ==
    /\ mOut # <<>>
    /\ mCriteria.matchCase
    /\ mCriteria.suffixes = << <<"A">>, <<"a", "A">> >>
    /\ mPk = <<"2", "a", "A">>
    /\ mOut[1].matchedSuffix = <<"A">>

(***************************************************************************)
(* Properties of the fixed-sequence specification.                         *)
(***************************************************************************)
\* the candidates generated so far that match the criteria, in the order
\* they were generated
MatchingFed ==
    LET IsMatch(A) == Matches(A, mCriteria)
    IN  SelectSeq(SubSeq(mFeed, 1, mAttempts), IsMatch)

\* C24: the 'found' events of a worker fed a fixed sequence of candidates
\* are exactly the matching candidates of the sequence, one event each, in
\* generation order: after any number of attempts the events posted are,
\* in order, the matching candidates among those generated, each carrying
\* the number of the attempt that generated it.
C24_FoundEventsAreTheMatches ==
    /\ Len(mOut) = Len(MatchingFed)
    /\ \A k \in 1..Len(mOut) :
          /\ mOut[k].type = "found"
          /\ mOut[k].address = MatchingFed[k]
          /\ mOut[k].attempts \in 1..mAttempts
          /\ mFeed[mOut[k].attempts] = mOut[k].address
    /\ \A k \in 1..(Len(mOut) - 1) : mOut[k].attempts < mOut[k + 1].attempts

\* prefix AB, suffixes XY and ZZ, no matchCase, on the sequence abxy, zzqr,
\* abzz: two events, with matchedSuffix XY and then ZZ
C24_Witness ==
    /\ mCriteria = [prefix |-> <<"A", "B">>,
                    suffixes |-> << <<"X", "Y">>, <<"Z", "Z">> >>,
                    matchCase |-> FALSE]
    /\ mFeed = << <<"a", "b", "x", "y">>, <<"z", "z", "q", "r">>,
                  <<"a", "b", "z", "z">> >>
    /\ mAttempts = 3
    /\ Len(mOut) = 2
    /\ mOut[1].address = mFeed[1] /\ mOut[1].matchedSuffix = <<"X", "Y">>
    /\ mOut[2].address = mFeed[3] /\ mOut[2].matchedSuffix = <<"Z", "Z">>

(***************************************************************************)
(* Properties of the speed-history specification.                          *)
(***************************************************************************)
\* the step in which the controller receives a progress event
ProgressReceived ==
    \E u \in 1..Len(wk) :
        /\ out[u] # <<>>
        /\ Head(out[u]).type = "progress"
        /\ out'[u] = Tail(out[u])

\* the sum of the speeds of all entries of workerStats
TrackedSpeed(stats) ==
    LET sum[S \in SUBSET DOMAIN stats] ==
            IF S = {} THEN 0
            ELSE LET i == CHOOSE x \in S : \A y \in S : x <= y
                 IN  stats[i].speed + sum[S \ {i}]
    IN  sum[DOMAIN stats]

\* C25: the speed history is a bounded FIFO.  It never holds more than 60
\* samples; each progress event appends one sample, which carries the
\* aggregate speed of that moment; and when it holds 60, the oldest sample
\* is the one that goes and the others keep their order.
C25_SpeedHistoryBoundedFifo ==
    /\ [](Len(telemetry.speedHistory) <= 60)
    /\ [][ProgressReceived =>
             LET old    == telemetry.speedHistory
                 new    == telemetry'.speedHistory
                 sample == Last(new)
             IN  /\ new # <<>>
                 /\ sample.speed = TrackedSpeed(telemetry'.workerStats)
                 /\ sample.speed = telemetry'.keysPerSecond
                 /\ new = IF Len(old) < 60 THEN Append(old, sample)
                          ELSE Append(Tail(old), sample)]_vars

\* the 61st progress event of a run has been received: the history holds
\* 60 samples, from the second one of the run to the last
C25_Witness ==
    /\ Len(telemetry.speedHistory) = 60
    /\ telemetry.totalAttempts = 61 * REPORT_INTERVAL
    /\ telemetry.speedHistory[1].speed = 5
    /\ telemetry.speedHistory[60].speed = 6
    /\ telemetry.keysPerSecond = 6

(***************************************************************************)
(* Further properties of the controller specification.                     *)
(***************************************************************************)
\* C26: within a run the attempt count tracked for each worker never
\* decreases.  In a step that begins no run, every entry of workerStats
\* stays and its attempts do not decrease; and a worker's own counter never
\* decreases while its thread lives, each progress event it posts carrying
\* the counter's value.
C26_AttemptsMonotone ==
    [][/\ calls'.run = calls.run =>
             \A id \in DOMAIN telemetry.workerStats :
                /\ id \in DOMAIN telemetry'.workerStats
                /\ telemetry'.workerStats[id].attempts >=
                      telemetry.workerStats[id].attempts
       /\ \A u \in 1..Len(wk) :
             wk'[u].st # "exited" =>
                /\ wk'[u].localAttempts >= wk[u].localAttempts
                /\ \A k \in (Len(out[u]) + 1)..Len(out'[u]) :
                      out'[u][k].type = "progress" =>
                         out'[u][k].attempts = wk'[u].localAttempts]_vars

(***************************************************************************)
(* Further properties of the store specification.                          *)
(***************************************************************************)
\* the text holds the piece, character by character
Contains(text, piece) ==
    \E i \in 1..(Len(text) - Len(piece) + 1) :
        SubSeq(text, i, i + Len(piece) - 1) = piece

\* the secret key of the k-th key pair as plain text: the JSON array of its
\* bytes, and its hexadecimal form
PlainSecrets(k) ==
    { JsonStringify(JsArr(JsNumbers(SecretKeyOf(k)))), ToHex(SecretKeyOf(k)) }

\* C27: secret keys are stored encrypted: no file under the data path
\* holds the secret key of a saved discovery in plain text.
C27_NoPlaintextSecretKey ==
    \A name \in DOMAIN disk, k \in 1..calls.keys :
        \A secret \in PlainSecrets(k) : ~Contains(disk[name], secret)

(***************************************************************************)
(* Properties of the validation specification.                             *)
(***************************************************************************)
\* the first character of str outside the Base58 alphabet
FirstOffending(str) ==
    str[CHOOSE i \in 1..Len(str) :
            /\ str[i] \notin BASE58_ALPHABET
            /\ \A j \in 1..(i - 1) : str[j] \in BASE58_ALPHABET]

AllBase58(str) == \A i \in 1..Len(str) : str[i] \in BASE58_ALPHABET

\* str without the spaces around it
Trimmed(str) ==
    LET inked == {i \in 1..Len(str) : str[i] # " "}
    IN  IF inked = {} THEN <<>>
        ELSE SubSeq(str, CHOOSE i \in inked : \A j \in inked : i <= j,
                         CHOOSE i \in inked : \A j \in inked : j <= i)

\* the comma-separated pieces of str, trimmed, the empty ones left out, in
\* input order
SuffixPieces(str) ==
    LET commas == {i \in 1..Len(str) : str[i] = ","}
        \* the comma pieces start after position a and end before the
        \* next comma, or the end
        starts == {0} \cup commas
        EndOf(a) == IF \E b \in commas : b > a
                    THEN CHOOSE b \in commas : b > a /\ \A d \in commas : d > a => b <= d
                    ELSE Len(str) + 1
        kept == {a \in starts : Trimmed(SubSeq(str, a + 1, EndOf(a) - 1)) # <<>>}
        order == CHOOSE q \in [1..Cardinality(kept) -> kept] :
                    \A i, j \in 1..Cardinality(kept) : i < j => q[i] < q[j]
    IN  [k \in 1..Cardinality(kept) |->
            Trimmed(SubSeq(str, order[k] + 1, EndOf(order[k]) - 1))]

\* C28: validation surfaces the offending character and substring.
\* validateSuffix(s), which start() applies to the prefix, is valid exactly
\* when every character of s is Base58, and otherwise gives the first
\* offending character of s.  parseSuffixes, which start() applies to the
\* suffix string, gives the first invalid suffix in input order with its
\* first offending character when some suffix is invalid, and otherwise
\* the trimmed non-empty suffixes in input order.  start() reports the
\* former through onError and runs with the latter.
C28_ValidationSurfacesOffender ==
    [][\A c \in ValidateCriteria :
          Start(c) =>
             LET pieces == SuffixPieces(c.suffixString)
                 bad    == {k \in 1..Len(pieces) : ~AllBase58(pieces[k])}
                 first  == CHOOSE k \in bad : \A h \in bad : k <= h
             IN  /\ validateSuffix(c.prefix).valid <=> AllBase58(c.prefix)
                 /\ parseSuffixes(c.suffixString).valid <=> bad = {}
                 /\ IF bad # {}
                    THEN /\ parseSuffixes(c.suffixString).invalidSuffix = pieces[first]
                         /\ parseSuffixes(c.suffixString).invalidChar =
                               FirstOffending(pieces[first])
                         /\ ~Last(startLog').ret
                         /\ Last(onErrorLog') =
                               [kind |-> "suffix",
                                invalidChar |-> FirstOffending(pieces[first]),
                                invalid |-> pieces[first]]
                    ELSE IF ~AllBase58(c.prefix)
                    THEN /\ validateSuffix(c.prefix).invalidChar = FirstOffending(c.prefix)
                         /\ ~Last(startLog').ret
                         /\ Last(onErrorLog') =
                               [kind |-> "prefix",
                                invalidChar |-> FirstOffending(c.prefix),
                                invalid |-> c.prefix]
                    ELSE /\ parseSuffixes(c.suffixString).suffixes = pieces
                         /\ Last(startLog').ret
                         /\ currentCriteria'.suffixes = pieces
                         /\ \A u \in 1..Len(wk') : wk'[u].criteria.suffixes = pieces]_vars

\* start() was refused for a suffix string whose first invalid suffix, in
\* input order, is "0l": the error names that suffix and the character 0
C28_Witness ==
    /\ startLog # <<>>
    /\ ~Last(startLog).ret
    /\ onErrorLog =
          <<[kind |-> "suffix", invalidChar |-> "0", invalid |-> <<"0", "l">>]>>

(***************************************************************************)
(* Properties of the worker's handling of the stop signal.                 *)
(***************************************************************************)
\* the worker threads a behaviour can hold
ThreadSlots == 1..(MaxStarts + 1)

\* the attempt count at which worker u yields next
NextYield(u) == ((wk[u].localAttempts \div YIELD_INTERVAL) + 1) * YIELD_INTERVAL

\* a stop message is on its way to worker u, which is in its loop and has
\* the attempts left to reach its next yield
StopSignalled(u) ==
    /\ u \in 1..Len(wk)
    /\ wk[u].stopMsg
    /\ \/ wk[u].st = "yield"
       \/ wk[u].st = "mining" /\ NextYield(u) <= scn.attempts

\* worker u has left its loop and its 'stopped' message, with its total
\* attempt count, is on the port
StoppedPosted(u) ==
    /\ u \in 1..Len(wk)
    /\ wk[u].st = "idle"
    /\ \E k \in 1..Len(out[u]) :
          out[u][k].type = "stopped" /\ out[u][k].attempts = wk[u].localAttempts

\* the thread of worker u was terminated, or died of a fault
ThreadEnded(u) ==
    /\ u \in 1..Len(wk)
    /\ \/ wk[u].st \in {"exited", "crashed", "errored"}
       \/ wk[u].stopRequested
       \/ \E k \in 1..Len(out[u]) : out[u][k].type = "error"

C30_SignalSeenWithinBatch ==
    [][\A u \in 1..Len(wk) :
          (/\ wk[u].stopMsg
           /\ u \in 1..Len(wk')
           /\ wk'[u].localAttempts > wk[u].localAttempts) =>
              /\ wk'[u].localAttempts - wk[u].localAttempts <= wk[u].batchSize
              /\ wk'[u].st = "yield"]_vars

(***************************************************************************)
(* Properties of the yield interval and of the progress reports.           *)
(***************************************************************************)
\* C31: for every batchSize, a worker yields to check for a stop signal at
\* least once every 50,000 attempts: a worker that has made 50,000 attempts
\* has yielded, and a worker with a stop message pending has made at most
\* 50,000 attempts since the message was posted.
C31_YieldEveryInterval ==
    \A u \in 1..Len(wk) :
        /\ wk[u].localAttempts >= YIELD_INTERVAL => wk[u].yielded
        /\ wk[u].stopMsg => wk[u].localAttempts - wk[u].sigAt <= YIELD_INTERVAL

\* C32: the speed of every progress event is floor(cumulative attempts of
\* the worker / seconds elapsed since the worker started), 0 when no time
\* has elapsed, also after the worker has yielded.
C32_SpeedSinceWorkerStart ==
    [][(Len(mOut') > Len(mOut) /\ Last(mOut').type = "progress") =>
          /\ Last(mOut').attempts = mAttempts'
          /\ Last(mOut').speed = IF mTime'.now > 0
                                 THEN (mAttempts' * 1000) \div mTime'.now
                                 ELSE 0]_vars

\* until its first yield the worker's progress events carry that speed
SpeedExactBeforeFirstYield ==
    [][(/\ Len(mOut') > Len(mOut)
        /\ Last(mOut').type = "progress"
        /\ mAttempts' <= YIELD_INTERVAL) =>
          /\ Last(mOut').attempts = mAttempts'
          /\ Last(mOut').speed = IF mTime'.now > 0
                                 THEN (mAttempts' * 1000) \div mTime'.now
                                 ELSE 0]_vars

\* the greatest common divisor and the least common multiple
RECURSIVE Gcd(_, _)
Gcd(a, b) == IF b = 0 THEN a ELSE Gcd(b, a % b)

Lcm(a, b) == (a * b) \div Gcd(a, b)

\* worker u posts a progress event in this step
PostsProgress(u) ==
    /\ u \in 1..Len(wk)
    /\ wk'[u].localAttempts > wk[u].localAttempts
    /\ \E k \in 1..Len(out'[u]) :
          out'[u][k].type = "progress" /\ out'[u][k].attempts = wk'[u].localAttempts

Receives(u, t) ==
    /\ u \in 1..Len(wk)
    /\ out[u] # <<>>
    /\ Head(out[u]).type = t
    /\ out' = [out EXCEPT ![u] = Tail(@)]

\* a step of a 'found' handler: it begins, or goes on after an await
FoundHandlerStep ==
    \/ \E u \in 1..Len(wk) : Receives(u, "found")
    \/ saveFrames' # saveFrames

\* C34: handling a progress message changes only the telemetry, the
\* workerStats entry of the sending worker alone, and leaves the discovery
\* list, foundCount and the files as they were; a step of the handling of a
\* match message leaves workerStats, totalAttempts, keysPerSecond and
\* speedHistory as they were and sends no stop and no terminate to a worker.
C34_RoutingKeepsFlowsApart ==
    [][/\ \A u \in 1..Len(wk) :
             Receives(u, "progress") =>
                /\ foundWallets' = foundWallets
                /\ telemetry'.foundCount = telemetry.foundCount
                /\ disk' = disk
                /\ saveFrames' = saveFrames
                /\ onFoundLog' = onFoundLog
                /\ isRunning' = isRunning
                /\ wk' = wk
                /\ \A i \in DOMAIN telemetry.workerStats \ {Head(out[u]).workerId} :
                      telemetry'.workerStats[i] = telemetry.workerStats[i]
                /\ telemetry'.workerStats[Head(out[u]).workerId].attempts
                      = Head(out[u]).attempts
       /\ FoundHandlerStep =>
                /\ telemetry'.workerStats = telemetry.workerStats
                /\ telemetry'.totalAttempts = telemetry.totalAttempts
                /\ telemetry'.keysPerSecond = telemetry.keysPerSecond
                /\ telemetry'.speedHistory = telemetry.speedHistory
                /\ wk' = wk
                /\ stopFrames' = stopFrames
                /\ isRunning' = isRunning]_vars

\* both flows have run: a progress message has been handled, and after it
\* a match was stored, listed and reported, the telemetry totals as the
\* progress message left them
C34_Witness ==
    /\ Len(foundWallets) = 1
    /\ Len(onFoundLog) = 1
    /\ telemetry.foundCount = 1
    /\ telemetry.totalAttempts = YIELD_INTERVAL
    /\ Len(telemetry.speedHistory) = 1
    /\ foundWallets[1].savedPath # Null
    /\ foundWallets[1].savedPath \in DOMAIN disk
    /\ saveFrames = {}

\* C35: a start call that is rejected for invalid criteria leaves the
\* controller unchanged: the step in which start() is called with invalid
\* criteria changes neither isRunning, nor the workers and the messages sent
\* to them, nor the pool, the discovery list or the telemetry, and begins
\* no stop().
C35_RejectedStartChangesNothing ==
    [][\A c \in StartCriteria :
          (InvalidCriteria(c) /\ Start(c)) =>
             /\ isRunning' = isRunning
             /\ wk' = wk
             /\ arrays' = arrays /\ workersRef' = workersRef
             /\ foundWallets' = foundWallets
             /\ telemetry' = telemetry
             /\ stopFrames' = stopFrames]_vars

\* C36: workers are terminated only by a stop() issued after the start()
\* that spawned them: the stop() that terminates a worker is one that was
\* called with the worker in the pool; so, faults aside, whenever the
\* controller is running the pool holds a worker whose thread lives and has
\* not been terminated.
C36_StopSparesLaterWorkers ==
    /\ [][\A w \in 1..Len(wk) :
             (wk'[w].stopRequested /\ ~wk[w].stopRequested) =>
                \E f \in stopFrames' : f.waitOn = w /\ w \in f.pool]_vars
    /\ []((isRunning /\ calls.faults = 0) =>
             \E w \in Range(arrays[workersRef]) :
                /\ wk[w].st \notin {"exited", "crashed", "errored"}
                /\ ~wk[w].stopRequested)

\* C37: telemetry.activeWorkers is never negative, also between the 'error'
\* event and the 'exit' event of a failing worker and when several workers
\* fail one after another.
C37_ActiveWorkersNotNegative == telemetry.activeWorkers >= 0

\* a stop() call has completed, no stop() is in progress and no start() has
\* succeeded or is waiting since
StoppedForGood == ~isRunning /\ calls.stopCalls > 0 /\ stopFrames = {} /\ startFrames = {}

\* C38: once a stop() call has completed, and until the next successful
\* start, this.onFound is not called, no progress message is handled
\* (this.onProgress is not called) and the discovery list does not grow,
\* even if the persistence of a match received before was still in flight.
C38_QuietAfterStop ==
    [][StoppedForGood =>
          /\ onFoundLog' = onFoundLog
          /\ Len(foundWallets') <= Len(foundWallets)
          /\ \A u \in 1..Len(wk) : ~Receives(u, "progress")]_vars

\* C39: the savedPath of a discovery is non-null if and only if its record
\* file was written: a reported discovery with a savedPath has the file of
\* that name in the store, and one flagged unsaved (savedPath null) has no
\* record file in the store, also when only the keyfile write failed.
C39_SavedPathIffRecordWritten ==
    \A i \in 1..Len(onFoundLog) :
        LET w == onFoundLog[i].wallet
        IN  /\ w.savedPath # Null => w.savedPath \in DOMAIN disk
            /\ w.savedPath = Null =>
                  \A name \in DOMAIN disk :
                      name[1] = "wallet" => disk[name].key # w.key

\* C40: between any two tasks of the main thread, across every interleaving
\* of start, match handling, clearFoundWallets and stop,
\* telemetry.foundCount is the length of the discovery list.
C40_FoundCountIsListLength == telemetry.foundCount = Len(foundWallets)

\* a discovery was listed and counted, the list was emptied and the count
\* with it, and the next discovery is listed and counted as the first
C40_Witness ==
    /\ Len(onFoundLog) = 2
    /\ onFoundLog[1].totalFound = 1
    /\ onFoundLog[2].totalFound = 1
    /\ Len(foundWallets) = 1
    /\ telemetry.foundCount = 1
    /\ foundWallets[1] = onFoundLog[2].wallet

=============================================================================






